---- MODULE Spec2Model ----
(***************************************************************************)
(* State based signature handling (src/src/detect-engine-state.c).         *)
(*                                                                         *)
(* The model holds one flow: its transactions with their per-transaction   *)
(* detect state, the flow detect state, the inspect ids, the stored        *)
(* app-layer version, and the detection thread context.  The chunked       *)
(* stores, the start driver, the continue driver, the pre-check and the    *)
(* resets are operators translated from the C functions of the same name.  *)
(***************************************************************************)
EXTENDS Naturals, Integers, Sequences, FiniteSets, TLC

VARIABLES
    txs,               \* app-layer transactions: progress per direction, detect state
    inspect_id,        \* alparser inspect id per direction
    alversion,         \* app-layer state version (moves when the parser ran)
    f_de_state,        \* Flow::de_state (DetectEngineStateFlow or NULL)
    detect_alversion,  \* Flow::detect_alversion[2]
    sgh,               \* det_ctx->sgh: the signature group of the flow
    sig_array,         \* det_ctx->de_state_sig_array
    alerts,            \* p->alerts of the packet under inspection, in append order
    pc,                \* position of the caller in its per-packet sequence
    pkt,               \* the packet under inspection: flags, has-state result, packets seen
    det_ctx,           \* the thread's DetectEngineThreadCtx: tx_id, tx_id_set, flow_locked
    alproto,           \* the app-layer protocol of the flow (Flow::alproto)
    alstate,           \* Flow::alstate as FlowGetAppState returns it
    flow_m,            \* the flow's lock: the worker that holds it, 0 when free
    worker,            \* per worker thread: the call it is in and where in it
    hist               \* history: engine results, alert counts, stored appends, faults

vars == <<txs, inspect_id, alversion, f_de_state, detect_alversion,
          sgh, sig_array, alerts, pc, pkt, det_ctx, alproto, alstate, flow_m, worker, hist>>

-----------------------------------------------------------------------------
(* Bounds of the model.                                                    *)

MaxTxs == 2
MaxPkts == 2
MaxAppends == 16
MaxInspections == 2
MaxFileCalls == 3
MaxAllocFails == 1
MaxResets == 1
MaxFiles == 1
MaxReopenCalls == 3
MaxOrderCalls == 4
MaxInvalidCalls == 3
MaxLockCalls == 3
MaxDceCalls == 3
MaxMarkCalls == 4

(* Program constants.                                                      *)

DE_STATE_CHUNK_SIZE == 15
CompletionStatus == 2

NULL == <<>>

(* The app-layer protocols of a flow and the states FlowGetAppState can      *)
(* hand out: none, an HtpState without its connection, a full state, and    *)
(* an SMBState whose dcerpc_present is 0.                                   *)
ALPROTO_HTTP == "http"
ALPROTO_DCERPC == "dcerpc"
ALPROTO_SMB == "smb"
ALPROTO_SMB2 == "smb2"
DceProtos == {ALPROTO_DCERPC, ALPROTO_SMB, ALPROTO_SMB2}

ALSTATE_NULL == "null"
ALSTATE_NO_CONN == "noconn"
ALSTATE_VALID == "valid"
ALSTATE_NO_DCERPC == "nodcerpc"
AlStates == {ALSTATE_NULL, ALSTATE_NO_CONN, ALSTATE_VALID}

(* StateIsValid(alproto, alstate)                                           *)
StateIsValid(proto, state) ==
    IF state # ALSTATE_NULL
    THEN IF proto = ALPROTO_HTTP THEN state # ALSTATE_NO_CONN ELSE TRUE
    ELSE FALSE

(* AppLayerParserProtocolSupportsTxs(f->proto, alproto)                     *)
SupportsTxs == alproto = ALPROTO_HTTP

(* The worker threads of the flow, and a worker outside every call.         *)
Workers == {1, 2}
Idle == [fn |-> "none", at |-> "idle", sid |-> 0, exit |-> "none"]

(* Direction flags of a packet (stream flags), as a set of bits.            *)
STREAM_TOSERVER == "STREAM_TOSERVER"
STREAM_TOCLIENT == "STREAM_TOCLIENT"
STREAM_EOF == "STREAM_EOF"

Dirs == {0, 1}

(* direction & STREAM_TOSERVER ? 0 : 1                                      *)
DirIdx(flags) == IF STREAM_TOSERVER \in flags THEN 0 ELSE 1

(* Flags of a stored item.                                                  *)
DE_STATE_FLAG_URI_INSPECT == "URI_INSPECT"
DE_STATE_FLAG_HMD_INSPECT == "HMD_INSPECT"
DE_STATE_FLAG_HCD_INSPECT == "HCD_INSPECT"
DE_STATE_FLAG_HUAD_INSPECT == "HUAD_INSPECT"
DE_STATE_FLAG_FILE_TS_INSPECT == "FILE_TS_INSPECT"
DE_STATE_FLAG_FILE_TC_INSPECT == "FILE_TC_INSPECT"
DE_STATE_FLAG_FULL_INSPECT == "FULL_INSPECT"
DE_STATE_FLAG_SIG_CANT_MATCH == "SIG_CANT_MATCH"

(* Flags of a direction state.                                              *)
FLAG_FILE_TS_NEW == "FILE_TS_NEW"
FLAG_FILE_TC_NEW == "FILE_TC_NEW"
FLAG_FILE_STORE_DISABLED == "FILE_STORE_DISABLED"

(* Results of an inspection engine.                                         *)
SIG_NO_MATCH == "NO_MATCH"
SIG_MATCH == "MATCH"
SIG_CANT_MATCH == "CANT_MATCH"
SIG_CANT_MATCH_FILESTORE == "CANT_MATCH_FILESTORE"

DE_STATE_MATCH_HAS_NEW_STATE == 0
DE_STATE_MATCH_NO_NEW_STATE == 1

-----------------------------------------------------------------------------
(* The chunked store.                                                       *)

ZeroItem == [sid |-> 0, flags |-> {}]
ZeroFlowItem == [sid |-> 0, flags |-> {}, nm |-> 0]

(* DeStateStoreAlloc: a chunk of DE_STATE_CHUNK_SIZE zeroed slots.          *)
DeStateStoreAlloc == [i \in 1..DE_STATE_CHUNK_SIZE |-> ZeroItem]
DeStateStoreFlowRulesAlloc == [i \in 1..DE_STATE_CHUNK_SIZE |-> ZeroFlowItem]

(* A direction state after memset 0: head = tail = NULL is the empty list   *)
(* of chunks; head is chunks[1], tail the last chunk, next the successor.   *)
ZeroDirState == [cnt |-> 0, filestore_cnt |-> 0, flags |-> {}, chunks |-> <<>>]
ZeroDirStateFlow == [cnt |-> 0, flags |-> {}, chunks |-> <<>>]

DetectEngineStateAlloc == [d \in Dirs |-> ZeroDirState]
DetectEngineStateFlowAlloc == [d \in Dirs |-> ZeroDirStateFlow]

(* The append shared by DeStateSignatureAppend and DeStateFlowRuleAppend:   *)
(* dir_state is the direction state, rec the record to write, fresh a       *)
(* zeroed chunk, ok whether the allocator returns memory.  The result is    *)
(* the new direction state and whether the walk to the chunk of slot cnt    *)
(* followed a null next link.                                               *)
AppendCntAlways(dir_state, rec, fresh, ok) ==
    LET n == Len(dir_state.chunks)
        jump == dir_state.cnt \div DE_STATE_CHUNK_SIZE
        idx == (dir_state.cnt % DE_STATE_CHUNK_SIZE) + 1
    IN  IF n = 0 /\ ~ok THEN [ds |-> [dir_state EXCEPT !.cnt = @ + 1], fault |-> FALSE]
        ELSE IF n = 0
        THEN [ds |-> [dir_state EXCEPT !.chunks = <<[fresh EXCEPT ![idx] = rec]>>,
                                       !.cnt = @ + 1],
              fault |-> FALSE]
        ELSE IF jump > n THEN [ds |-> dir_state, fault |-> TRUE]
        ELSE IF jump = n /\ ~ok THEN [ds |-> [dir_state EXCEPT !.cnt = @ + 1], fault |-> FALSE]
        ELSE IF jump = n
        THEN [ds |-> [dir_state EXCEPT !.chunks = Append(@, [fresh EXCEPT ![idx] = rec]),
                                       !.cnt = @ + 1],
              fault |-> FALSE]
        ELSE [ds |-> [dir_state EXCEPT !.chunks[jump + 1][idx] = rec, !.cnt = @ + 1],
              fault |-> FALSE]

AppendSlotByCntAfter(dir_state, rec, fresh, ok) ==
    LET n == Len(dir_state.chunks)
        jump == dir_state.cnt \div DE_STATE_CHUNK_SIZE
        idx == ((dir_state.cnt + 1) % DE_STATE_CHUNK_SIZE) + 1
    IN  IF n = 0 /\ ~ok THEN [ds |-> dir_state, fault |-> FALSE]
        ELSE IF n = 0
        THEN [ds |-> [dir_state EXCEPT !.chunks = <<[fresh EXCEPT ![idx] = rec]>>,
                                       !.cnt = @ + 1],
              fault |-> FALSE]
        ELSE IF jump > n THEN [ds |-> dir_state, fault |-> TRUE]
        ELSE IF jump = n /\ ~ok THEN [ds |-> dir_state, fault |-> FALSE]
        ELSE IF jump = n
        THEN [ds |-> [dir_state EXCEPT !.chunks = Append(@, [fresh EXCEPT ![idx] = rec]),
                                       !.cnt = @ + 1],
              fault |-> FALSE]
        ELSE [ds |-> [dir_state EXCEPT !.chunks[jump + 1][idx] = rec, !.cnt = @ + 1],
              fault |-> FALSE]

(* An append that writes the record whatever the allocator answered.        *)
AppendIgnoresAllocator(dir_state, rec, fresh, ok) ==
    LET n == Len(dir_state.chunks)
        jump == dir_state.cnt \div DE_STATE_CHUNK_SIZE
        idx == (dir_state.cnt % DE_STATE_CHUNK_SIZE) + 1
    IN  IF n = 0
        THEN [ds |-> [dir_state EXCEPT !.chunks = <<[fresh EXCEPT ![idx] = rec]>>,
                                       !.cnt = @ + 1],
              fault |-> FALSE]
        ELSE IF jump > n THEN [ds |-> dir_state, fault |-> TRUE]
        ELSE IF jump = n
        THEN [ds |-> [dir_state EXCEPT !.chunks = Append(@, [fresh EXCEPT ![idx] = rec]),
                                       !.cnt = @ + 1],
              fault |-> FALSE]
        ELSE [ds |-> [dir_state EXCEPT !.chunks[jump + 1][idx] = rec, !.cnt = @ + 1],
              fault |-> FALSE]

StoreAppend(dir_state, rec, fresh, ok) ==
    LET n == Len(dir_state.chunks)
        \* jump = dir_state->cnt / DE_STATE_CHUNK_SIZE
        jump == dir_state.cnt \div DE_STATE_CHUNK_SIZE
        \* idx = dir_state->cnt++ % DE_STATE_CHUNK_SIZE
        idx == (dir_state.cnt % DE_STATE_CHUNK_SIZE) + 1
    IN  \* head == NULL: allocate the first chunk, or drop the append
        IF n = 0 /\ ~ok THEN [ds |-> dir_state, fault |-> FALSE]
        ELSE IF n = 0
        THEN [ds |-> [dir_state EXCEPT !.chunks = <<[fresh EXCEPT ![idx] = rec]>>,
                                       !.cnt = @ + 1],
              fault |-> FALSE]
        \* for (i = 0; i < jump; i++) store = store->next; past the tail's
        \* null next this dereferences a null pointer
        ELSE IF jump > n THEN [ds |-> dir_state, fault |-> TRUE]
        \* store == NULL after the walk: allocate and link behind tail, or drop
        ELSE IF jump = n /\ ~ok THEN [ds |-> dir_state, fault |-> FALSE]
        ELSE IF jump = n
        THEN [ds |-> [dir_state EXCEPT !.chunks = Append(@, [fresh EXCEPT ![idx] = rec]),
                                       !.cnt = @ + 1],
              fault |-> FALSE]
        ELSE [ds |-> [dir_state EXCEPT !.chunks[jump + 1][idx] = rec, !.cnt = @ + 1],
              fault |-> FALSE]

(* An append that takes the direction state of the other direction.        *)
SignatureAppendOtherDirection(state, sid, inspect_flags, direction, ok) ==
    LET d == 1 - DirIdx(direction)
        r == StoreAppend(state[d], [sid |-> sid, flags |-> inspect_flags],
                         DeStateStoreAlloc, ok)
    IN  [state |-> [state EXCEPT ![d] = r.ds], fault |-> r.fault]

(* DeStateSignatureAppend(state, s, inspect_flags, direction): the new      *)
(* state and the fault mark.                                                *)
DeStateSignatureAppend(state, sid, inspect_flags, direction, ok) ==
    LET d == DirIdx(direction)
        r == StoreAppend(state[d], [sid |-> sid, flags |-> inspect_flags],
                         DeStateStoreAlloc, ok)
    IN  [state |-> [state EXCEPT ![d] = r.ds], fault |-> r.fault]

(* DeStateFlowRuleAppend(state, s, sm, inspect_flags, direction).           *)
DeStateFlowRuleAppend(state, sid, sm, inspect_flags, direction, ok) ==
    LET d == DirIdx(direction)
        r == StoreAppend(state[d], [sid |-> sid, flags |-> inspect_flags, nm |-> sm],
                         DeStateStoreFlowRulesAlloc, ok)
    IN  [state |-> [state EXCEPT ![d] = r.ds], fault |-> r.fault]

(* The walk of the continue driver over one direction state: chunk by       *)
(* chunk from head, slot by slot, while state_cnt < cnt; state_cnt starts   *)
(* at state_cnt0.  The result is the sequence of <<chunk, slot>> visited.   *)
RECURSIVE WalkFrom(_, _, _, _)
WalkFrom(dir_state, c, store_cnt, state_cnt) ==
    IF c > Len(dir_state.chunks) THEN <<>>
    ELSE IF store_cnt < DE_STATE_CHUNK_SIZE /\ state_cnt < dir_state.cnt
    THEN <<<<c, store_cnt + 1>>>> \o WalkFrom(dir_state, c, store_cnt + 1, state_cnt + 1)
    ELSE WalkFrom(dir_state, c + 1, 0, state_cnt)

Walk(dir_state, state_cnt0) == WalkFrom(dir_state, 1, 0, state_cnt0)

(* The records a walk from head bounded by cnt yields.                      *)
Iter(dir_state) ==
    LET w == Walk(dir_state, 0)
    IN  [i \in 1..Len(w) |-> dir_state.chunks[w[i][1]][w[i][2]]]

-----------------------------------------------------------------------------
(* Signatures and the inspection engine table.                              *)

(* de_ctx->sig_array, indexed by Signature::num.  sm_lists names the        *)
(* engine lists that are non-empty; amatch is the length of the             *)
(* DETECT_SM_LIST_AMATCH list (0: the list is NULL); filestore tells a      *)
(* filestore-candidate signature; dmatch that DETECT_SM_LIST_DMATCH, the     *)
(* list of the DCE submatches, is non-empty.                                *)
DceSigs == {5, 6}

sig_array_def ==
    [s \in 0..6 |->
        CASE s = 0 -> [num |-> 0, sm_lists |-> {"HMDMATCH", "HCDMATCH"}, amatch |-> 0,
                       noalert |-> FALSE, filestore |-> FALSE,
                       dmatch |-> FALSE]
          [] s = 1 -> [num |-> 1, sm_lists |-> {"FILEMATCH", "HUADMATCH"}, amatch |-> 0,
                       noalert |-> FALSE, filestore |-> TRUE,
                       dmatch |-> FALSE]
          [] s = 2 -> [num |-> 2, sm_lists |-> {"HMDMATCH"}, amatch |-> 2,
                       noalert |-> FALSE, filestore |-> FALSE,
                       dmatch |-> FALSE]
          [] s = 3 -> [num |-> 3, sm_lists |-> {"HMDMATCH", "FILEMATCH"}, amatch |-> 0,
                       noalert |-> FALSE, filestore |-> FALSE,
                       dmatch |-> FALSE]
          [] s = 4 -> [num |-> 4, sm_lists |-> {"HMDMATCH", "HCDMATCH"}, amatch |-> 1,
                       noalert |-> TRUE, filestore |-> FALSE,
                       dmatch |-> FALSE]
          [] s = 5 -> [num |-> 5, sm_lists |-> {}, amatch |-> 0,
                       noalert |-> FALSE, filestore |-> FALSE,
                       dmatch |-> TRUE]
          [] s = 6 -> [num |-> 6, sm_lists |-> {}, amatch |-> 1,
                       noalert |-> FALSE, filestore |-> FALSE,
                       dmatch |-> TRUE]]

SigIds == DOMAIN sig_array_def

(* sgh->filestore_cnt: the filestore-candidate signatures of the group.     *)
SghFilestoreCnt(group) == Cardinality({s \in group : sig_array_def[s].filestore})

(* app_inspection_engine[protomap][alproto][direction]: the engine list of  *)
(* the flow's protocol for each direction, in list order.                   *)
app_inspection_engine ==
    [d \in Dirs |->
        IF d = 0
        THEN << [sm_list |-> "HMDMATCH", inspect_flags |-> DE_STATE_FLAG_HMD_INSPECT],
                [sm_list |-> "HCDMATCH", inspect_flags |-> DE_STATE_FLAG_HCD_INSPECT],
                [sm_list |-> "FILEMATCH", inspect_flags |-> DE_STATE_FLAG_FILE_TS_INSPECT],
                [sm_list |-> "HUADMATCH", inspect_flags |-> DE_STATE_FLAG_HUAD_INSPECT] >>
        ELSE << [sm_list |-> "FILEMATCH", inspect_flags |-> DE_STATE_FLAG_FILE_TC_INSPECT] >>]

(* What engine->Callback can return: only the file engine knows filestore.  *)
CallbackResults(engine) ==
    IF engine.sm_list = "FILEMATCH"
    THEN {SIG_MATCH, SIG_NO_MATCH, SIG_CANT_MATCH, SIG_CANT_MATCH_FILESTORE}
    ELSE {SIG_MATCH, SIG_NO_MATCH, SIG_CANT_MATCH}

(* What sigmatch_table[sm->type].AppLayerMatch can return.                  *)
AppLayerMatchResults == {0, 1, 2}

(* A TxIsLast that takes the last two transactions for the last.            *)
TxIsLastOrBeforeIt(tx_id, total_txs) == total_txs - tx_id <= 2

(* TxIsLast(tx_id, total_txs): total_txs - tx_id <= 1 in uint64_t; the      *)
(* callers pass tx_id < total_txs.                                          *)
TxIsLast(tx_id, total_txs) == total_txs - tx_id <= 1

-----------------------------------------------------------------------------
(* The engine loop of DeStateDetectStartDetection for one transaction:      *)
(* every way the callbacks can answer, as the set of                        *)
(*   inspect_flags, total_matches, exhausted (engine == NULL after the      *)
(*   loop), fnm (file_no_match increments), trace (engine flag, result).    *)
EngineStop(engine, match) ==
    [inspect_flags |->
        IF match = SIG_NO_MATCH THEN {}
        ELSE {DE_STATE_FLAG_SIG_CANT_MATCH, engine.inspect_flags},
     total_matches |-> 0,
     exhausted |-> FALSE,
     fnm |-> IF match = SIG_CANT_MATCH_FILESTORE THEN 1 ELSE 0,
     trace |-> << <<engine.inspect_flags, match>> >>]

EngineMatch(engine, o) ==
    [o EXCEPT !.inspect_flags = @ \cup {engine.inspect_flags},
              !.total_matches = @ + 1,
              !.trace = << <<engine.inspect_flags, SIG_MATCH>> >> \o @]

EnginesDone == [inspect_flags |-> {}, total_matches |-> 0, exhausted |-> TRUE,
                fnm |-> 0, trace |-> <<>>]

RECURSIVE StartEngines(_, _)
StartEngines(engines, s) ==
    IF engines = <<>> THEN {EnginesDone}
    ELSE LET engine == Head(engines)
             rest == StartEngines(Tail(engines), s)
         IN  IF engine.sm_list \in s.sm_lists
             THEN {EngineMatch(engine, o) : o \in rest}
                  \cup {EngineStop(engine, m) : m \in CallbackResults(engine) \ {SIG_MATCH}}
             ELSE rest

-----------------------------------------------------------------------------
(* Storing.                                                                 *)

(* AppLayerParserSupportsTxDetectState(f->proto, f->alproto)                *)
SupportsTxDetectState == TRUE

(* Whether an append to dir_state asks the allocator for a chunk.           *)
AsksChunk(dir_state) ==
    \/ Len(dir_state.chunks) = 0
    \/ dir_state.cnt \div DE_STATE_CHUNK_SIZE >= Len(dir_state.chunks)

(* The allocator's answers worth telling apart for a store into state       *)
(* (NULL: the state itself is allocated first): <<state ok, chunk ok>>.     *)
AllocChoices(oom, state, d, appends) ==
    IF ~oom THEN {<<TRUE, TRUE>>}
    ELSE IF state = NULL
    THEN IF appends THEN {<<FALSE, TRUE>>, <<TRUE, FALSE>>, <<TRUE, TRUE>>}
         ELSE {<<FALSE, TRUE>>, <<TRUE, TRUE>>}
    ELSE IF appends /\ AsksChunk(state[d]) THEN {<<TRUE, FALSE>>, <<TRUE, TRUE>>}
    ELSE {<<TRUE, TRUE>>}

(* DeStateStoreFileNoMatchCnt                                               *)
DeStateStoreFileNoMatchCnt(de_state, file_no_match, direction) ==
    [de_state EXCEPT ![DirIdx(direction)].filestore_cnt = @ + file_no_match]

(* DeStateStoreFilestoreSigsCantMatch                                       *)
DeStateStoreFilestoreSigsCantMatch(group, de_state, direction) ==
    de_state[DirIdx(direction)].filestore_cnt = SghFilestoreCnt(group)

(* A file handling that counts and never disables.                          *)
HandleFilesCountsOnly(group, destate, flags, file_no_match) ==
    [destate |-> DeStateStoreFileNoMatchCnt(destate, file_no_match, flags), disabled |-> FALSE]

(* StoreStateTxHandleFiles: the new state, and whether                      *)
(* FileDisableStoringForTransaction was called.                             *)
StoreStateTxHandleFiles(group, destate, flags, file_no_match) ==
    LET counted == DeStateStoreFileNoMatchCnt(destate, file_no_match, flags)
    IN  IF DeStateStoreFilestoreSigsCantMatch(group, counted, flags)
        THEN [destate |-> [counted EXCEPT ![DirIdx(flags)].flags =
                                              @ \cup {FLAG_FILE_STORE_DISABLED}],
              disabled |-> TRUE]
        ELSE [destate |-> counted, disabled |-> FALSE]

(* StoreStateTxFileOnly: the transaction's new detect state.                *)
StoreStateTxFileOnly(group, tx, flags, file_no_match, okState) ==
    IF ~SupportsTxDetectState THEN [de_state |-> tx.de_state, disabled |-> FALSE]
    ELSE IF tx.de_state = NULL /\ ~okState
    THEN [de_state |-> NULL, disabled |-> FALSE]
    ELSE LET destate == IF tx.de_state = NULL THEN DetectEngineStateAlloc ELSE tx.de_state
             h == StoreStateTxHandleFiles(group, destate, flags, file_no_match)
         IN  [de_state |-> h.destate, disabled |-> h.disabled]

(* A version store that writes the other direction's slot.                 *)
StoreVersionOtherDirection(dav, alver, flags) == [dav EXCEPT ![1 - DirIdx(flags)] = alver]

(* DeStateStoreStateVersion(f, alversion, direction)                        *)
DeStateStoreStateVersion(dav, alver, flags) == [dav EXCEPT ![DirIdx(flags)] = alver]

(* StoreStateTx: the transaction's new detect state, whether the version    *)
(* was stored (DeStateStoreStateVersion), the fault mark of the append.     *)
StoreStateTx(group, tx, sid, flags, inspect_flags, file_no_match, okState, okChunk) ==
    IF ~SupportsTxDetectState
    THEN [de_state |-> tx.de_state, versioned |-> FALSE, fault |-> FALSE,
          disabled |-> FALSE]
    ELSE IF tx.de_state = NULL /\ ~okState
    THEN [de_state |-> NULL, versioned |-> FALSE, fault |-> FALSE, disabled |-> FALSE]
    ELSE LET destate == IF tx.de_state = NULL THEN DetectEngineStateAlloc ELSE tx.de_state
             a == DeStateSignatureAppend(destate, sid, inspect_flags, flags, okChunk)
             h == StoreStateTxHandleFiles(group, a.state, flags, file_no_match)
         IN  [de_state |-> h.destate, versioned |-> TRUE, fault |-> a.fault,
              disabled |-> h.disabled]

(* A StoreState that appends the record and leaves the version alone.       *)
StoreStateKeepsVersion(de_state, dav, flags, alver, sid, sm, inspect_flags, okState, okChunk) ==
    IF de_state = NULL /\ ~okState
    THEN [f_de_state |-> NULL, detect_alversion |-> dav, fault |-> FALSE,
          versioned |-> FALSE]
    ELSE LET st == IF de_state = NULL THEN DetectEngineStateFlowAlloc ELSE de_state
             a == DeStateFlowRuleAppend(st, sid, sm, inspect_flags, flags, okChunk)
         IN  [f_de_state |-> a.state, detect_alversion |-> dav,
              fault |-> a.fault, versioned |-> FALSE]

(* StoreState: the flow's new detect state and version.                     *)
StoreState(de_state, dav, flags, alver, sid, sm, inspect_flags, okState, okChunk) ==
    IF de_state = NULL /\ ~okState
    THEN [f_de_state |-> NULL, detect_alversion |-> dav, fault |-> FALSE,
          versioned |-> FALSE]
    ELSE LET st == IF de_state = NULL THEN DetectEngineStateFlowAlloc ELSE de_state
             a == DeStateFlowRuleAppend(st, sid, sm, inspect_flags, flags, okChunk)
         IN  [f_de_state |-> a.state,
              detect_alversion |-> DeStateStoreStateVersion(dav, alver, flags),
              fault |-> a.fault, versioned |-> TRUE]

(* PacketAlertAppend(det_ctx, s, p, tx_id, flags), or for a NOALERT         *)
(* signature the application of its actions, which appends nothing.         *)
PACKET_ALERT_FLAG_STATE_MATCH == "STATE_MATCH"
PACKET_ALERT_FLAG_TX == "TX"

PacketAlertAppend(al, s, tx_id, aflags) ==
    IF s.noalert THEN al
    ELSE Append(al, [sid |-> s.num, tx_id |-> tx_id, flags |-> aflags])

(* History of engine answers: the (sid, tx, engine) whose latest answer     *)
(* was MATCH.                                                               *)
NoteResults(last_match, sid, tx_id, trace) ==
    (last_match \ {<<sid, tx_id, trace[i][1]>> : i \in DOMAIN trace})
        \cup {<<sid, tx_id, trace[i][1]>> : i \in {j \in DOMAIN trace : trace[j][2] = SIG_MATCH}}

-----------------------------------------------------------------------------
(* DeStateDetectStartDetection.                                             *)
(*                                                                          *)
(* A run of the function is a record of the locals and of what it changed:  *)
(*   txs, f_de_state, detect_alversion, alerts: the flow and packet state   *)
(*   alert_cnt, file_no_match, inspect_flags: the function's locals         *)
(*   last_match, fault, steps, walk, disabled: what the run did (history)   *)
(*   versioned: DeStateStoreStateVersion was called                         *)

StartEntry(st, alver) ==
    [alver |-> alver, sgh |-> st.sgh, oom |-> st.oom, txs |-> st.txs, f_de_state |-> st.f_de_state,
     detect_alversion |-> st.detect_alversion, alerts |-> st.alerts,
     alert_cnt |-> 0, file_no_match |-> 0, inspect_flags |-> {},
     last_match |-> st.last_match, fault |-> st.fault,
     steps |-> <<>>, walk |-> <<>>, disabled |-> <<>>, oomed |-> FALSE,
     versioned |-> FALSE, exit |-> "end", alstate |-> st.alstate, dce |-> <<>>,
     det_ctx |-> st.det_ctx, post |-> <<>>]

(* A start driver that takes one matching engine for a match.               *)
StartMatchedPartly(o) == o.total_matches > 0

(* (engine == NULL && total_matches > 0): every engine that applies to the  *)
(* signature matched, and at least one did.                                 *)
StartMatched(o) == o.exhausted /\ o.total_matches > 0

(* A start driver that takes any matching engine for a decision.            *)
StartDecidesAnyMatch(o) ==
    o.total_matches > 0 \/ DE_STATE_FLAG_SIG_CANT_MATCH \in o.inspect_flags

(* The outer condition of the store: there was a decision.                  *)
StartDecides(o) ==
    StartMatched(o) \/ DE_STATE_FLAG_SIG_CANT_MATCH \in o.inspect_flags

(* A start driver that keeps the transactions in progress only.             *)
StartKeepsTxInProgress(tx, tx_id, total_txs, flags) ==
    tx.progress[DirIdx(flags)] < CompletionStatus

(* !(TxIsLast(tx_id, total_txs)) || !tx_is_done                             *)
StartKeepsTx(tx, tx_id, total_txs, flags) ==
    LET tx_is_done == tx.progress[DirIdx(flags)] >= CompletionStatus
    IN  ~TxIsLast(tx_id, total_txs) \/ ~tx_is_done

(* One iteration of the transaction loop, for one answer o of the engines   *)
(* and one answer ok of the allocator.                                      *)
StartTxOutcome(acc, tx_id, total_txs, s, flags, o, ok) ==
    LET d == DirIdx(flags)
        tx == acc.txs[tx_id + 1]
        matched == StartMatched(o)
        cant == DE_STATE_FLAG_SIG_CANT_MATCH \in o.inspect_flags
        file_no_match == acc.file_no_match + o.fnm
        \* history: the transaction as the iteration found it, and the answers
        step == [tx_id |-> tx_id, trace |-> o.trace, ok |-> ok,
                 total_txs |-> total_txs, progress |-> tx.progress[d],
                 cnt |-> IF tx.de_state = NULL THEN 0 ELSE tx.de_state[d].cnt]
        inspected ==
            [acc EXCEPT
                !.alerts = IF matched
                           THEN PacketAlertAppend(@, s, tx_id,
                                    {PACKET_ALERT_FLAG_STATE_MATCH, PACKET_ALERT_FLAG_TX})
                           ELSE @,
                !.alert_cnt = IF matched THEN 1 ELSE @,
                !.file_no_match = file_no_match,
                !.inspect_flags = o.inspect_flags,
                !.last_match = NoteResults(@, s.num, tx_id, o.trace),
                !.steps = Append(@, step),
                !.oomed = @ \/ ok # <<TRUE, TRUE>>]
    IN  IF StartDecides(o)
        THEN IF StartKeepsTx(tx, tx_id, total_txs, flags)
             THEN LET inspect_flags ==
                          IF o.exhausted \/ cant
                          THEN o.inspect_flags \cup {DE_STATE_FLAG_FULL_INSPECT}
                          ELSE o.inspect_flags
                      r == StoreStateTx(acc.sgh, tx, s.num, flags, inspect_flags,
                                        file_no_match, ok[1], ok[2])
                  IN  [inspected EXCEPT
                          !.inspect_flags = inspect_flags,
                          !.txs[tx_id + 1].de_state = r.de_state,
                          !.detect_alversion =
                              IF r.versioned THEN DeStateStoreStateVersion(@, acc.alver, flags)
                              ELSE @,
                          !.fault = @ \/ r.fault,
                          !.versioned = @ \/ r.versioned,
                          !.disabled = IF r.disabled THEN Append(@, tx_id) ELSE @]
             ELSE LET r == StoreStateTxFileOnly(acc.sgh, tx, flags, file_no_match, ok[1])
                  IN  [inspected EXCEPT
                          !.txs[tx_id + 1].de_state = r.de_state,
                          !.disabled = IF r.disabled THEN Append(@, tx_id) ELSE @]
        ELSE inspected

(* Whether the iteration stores a record (asks the allocator for one).      *)
StartTxStores(acc, tx_id, total_txs, flags, o) ==
    StartDecides(o) /\ StartKeepsTx(acc.txs[tx_id + 1], tx_id, total_txs, flags)

StartTxStep(acc, tx_id, total_txs, s, flags) ==
    LET d == DirIdx(flags)
        tx == acc.txs[tx_id + 1]
    IN  UNION {
            LET oks == IF ~StartDecides(o) THEN {<<TRUE, TRUE>>}
                       ELSE AllocChoices(acc.oom, tx.de_state, d,
                                         StartTxStores(acc, tx_id, total_txs, flags, o))
            \* det_ctx->tx_id = tx_id; det_ctx->tx_id_set = 1
            IN  {[StartTxOutcome(acc, tx_id, total_txs, s, flags, o, ok) EXCEPT
                     !.det_ctx.tx_id = tx_id, !.det_ctx.tx_id_set = 1] : ok \in oks}
            : o \in StartEngines(app_inspection_engine[d], s)}

(* for (; tx_id < total_txs; tx_id++)                                       *)
RECURSIVE StartTxLoop(_, _, _, _, _)
StartTxLoop(accs, tx_id, total_txs, s, flags) ==
    IF tx_id >= total_txs THEN accs
    ELSE StartTxLoop(UNION {StartTxStep(a, tx_id, total_txs, s, flags) : a \in accs},
                     tx_id + 1, total_txs, s, flags)

(* The walk over the DETECT_SM_LIST_AMATCH list from submatch sm on (a      *)
(* submatch is its place in the list, 0 the NULL pointer): every way the    *)
(* AppLayerMatch callbacks can answer, as the set of                        *)
(*   sm (where the walk stopped), match (the last answer), trace.           *)
RECURSIVE StartWalk(_, _)
StartWalk(sm, s) ==
    IF sm > s.amatch THEN {[sm |-> 0, match |-> 1, trace |-> <<>>]}
    ELSE {[sm |-> sm, match |-> 0, trace |-> <<0>>],
          [sm |-> sm, match |-> 2, trace |-> <<2>>]}
         \cup {[o EXCEPT !.trace = <<1>> \o @] : o \in StartWalk(sm + 1, s)}

(* Flow based matches whose alert goes to the head of the packet's alerts.  *)
StartFlowAlertsFirst(acc, s, flags, o, ok) ==
    LET inspect_flags1 ==
            IF o.match = 2 THEN acc.inspect_flags \cup {DE_STATE_FLAG_SIG_CANT_MATCH}
            ELSE acc.inspect_flags
        final == o.sm = 0 \/ DE_STATE_FLAG_SIG_CANT_MATCH \in inspect_flags1
        alert == final /\ o.match = 1
        inspect_flags == IF final THEN inspect_flags1 \cup {DE_STATE_FLAG_FULL_INSPECT}
                         ELSE inspect_flags1
        r == StoreState(acc.f_de_state, acc.detect_alversion, flags, acc.alver,
                        s.num, o.sm, inspect_flags, ok[1], ok[2])
    IN  [acc EXCEPT
            !.alerts = IF alert
                       THEN PacketAlertAppend(<<>>, s, 0, {PACKET_ALERT_FLAG_STATE_MATCH}) \o @
                       ELSE @,
            !.alert_cnt = IF alert THEN 1 ELSE @,
            !.inspect_flags = inspect_flags,
            !.f_de_state = r.f_de_state,
            !.detect_alversion = r.detect_alversion,
            !.fault = @ \/ r.fault,
            !.versioned = @ \/ r.versioned,
            !.walk = o.trace,
            !.oomed = @ \/ ok # <<TRUE, TRUE>>]

(* The flow based matches of the start driver, for one answer o of the      *)
(* submatches and one answer ok of the allocator.                           *)
StartFlowOutcome(acc, s, flags, o, ok) ==
    LET inspect_flags1 ==
            IF o.match = 2 THEN acc.inspect_flags \cup {DE_STATE_FLAG_SIG_CANT_MATCH}
            ELSE acc.inspect_flags
        \* sm == NULL || inspect_flags & DE_STATE_FLAG_SIG_CANT_MATCH
        final == o.sm = 0 \/ DE_STATE_FLAG_SIG_CANT_MATCH \in inspect_flags1
        alert == final /\ o.match = 1
        inspect_flags == IF final THEN inspect_flags1 \cup {DE_STATE_FLAG_FULL_INSPECT}
                         ELSE inspect_flags1
        r == StoreState(acc.f_de_state, acc.detect_alversion, flags, acc.alver,
                        s.num, o.sm, inspect_flags, ok[1], ok[2])
    IN  [acc EXCEPT
            !.alerts = IF alert
                       THEN PacketAlertAppend(@, s, 0, {PACKET_ALERT_FLAG_STATE_MATCH})
                       ELSE @,
            !.alert_cnt = IF alert THEN 1 ELSE @,
            !.inspect_flags = inspect_flags,
            !.f_de_state = r.f_de_state,
            !.detect_alversion = r.detect_alversion,
            !.fault = @ \/ r.fault,
            !.versioned = @ \/ r.versioned,
            !.walk = o.trace,
            !.oomed = @ \/ ok # <<TRUE, TRUE>>]

StartFlow(acc, s, flags) ==
    \* sm = s->sm_lists[DETECT_SM_LIST_AMATCH]; if (sm != NULL)
    IF s.amatch = 0 THEN {acc}
    \* if (alstate == NULL) goto end
    ELSE IF acc.alstate = ALSTATE_NULL THEN {acc}
    ELSE UNION {
            {StartFlowOutcome(acc, s, flags, o, ok)
                : ok \in AllocChoices(acc.oom, acc.f_de_state, DirIdx(flags), TRUE)}
            \* for SMB the callback is asked only if (smb_state->dcerpc_present)
            : o \in IF alproto \in {ALPROTO_SMB, ALPROTO_SMB2}
                       /\ acc.alstate = ALSTATE_NO_DCERPC
                    THEN {[sm |-> 1, match |-> 0, trace |-> <<>>]}
                    ELSE StartWalk(1, s)}

(* What DetectEngineInspectDcePayload can return.                           *)
DcePayloadResults == {0, 1}

(* DCERPC matches that ask the payload inspector whether or not the SMB     *)
(* state has a DCERPC part.                                                 *)
StartDceIgnoresPresence(acc, s, flags) ==
    {[acc EXCEPT
         !.dce = Append(@, r),
         !.alerts = IF r = 1 /\ ~s.noalert
                    THEN PacketAlertAppend(@, s, 0, {PACKET_ALERT_FLAG_STATE_MATCH})
                    ELSE @,
         !.alert_cnt = IF r = 1 THEN 1 ELSE @]
     : r \in DcePayloadResults}

(* The DCERPC matches of the start driver, entered with a non-NULL state:   *)
(* the payload inspector is asked once, for SMB only when the state has a   *)
(* DCERPC part; dce keeps its answers.                                      *)
StartDce(acc, s, flags) ==
    IF alproto \in {ALPROTO_SMB, ALPROTO_SMB2} /\ acc.alstate = ALSTATE_NO_DCERPC
    THEN {acc}
    ELSE {[acc EXCEPT
              !.dce = Append(@, r),
              !.alerts = IF r = 1 /\ ~s.noalert
                         THEN PacketAlertAppend(@, s, 0, {PACKET_ALERT_FLAG_STATE_MATCH})
                         ELSE @,
              !.alert_cnt = IF r = 1 THEN 1 ELSE @]
          : r \in DcePayloadResults}

(* A start driver whose end label leaves the thread context as it is.       *)
StartEndKeepsTxId(acc) == acc

(* The end label of the start driver, after FLOWLOCK_UNLOCK:                *)
(* det_ctx->tx_id = 0; det_ctx->tx_id_set = 0                               *)
StartEnd(acc) == [acc EXCEPT !.det_ctx.tx_id = 0, !.det_ctx.tx_id_set = 0]

(* A start driver that leaves out the transactions of an invalid state and  *)
(* goes on to the flow based matches.                                       *)
StartSkipsTxsOnly(st, s, flags, alver) ==
    LET tx_id == st.inspect_id[DirIdx(flags)]
        total_txs == Len(st.txs)
        after_txs == IF SupportsTxs /\ ~StateIsValid(alproto, st.alstate)
                     THEN {StartEntry(st, alver)}
                     ELSE StartTxLoop({StartEntry(st, alver)}, tx_id, total_txs, s, flags)
    IN  {StartEnd(r) : r \in UNION {StartFlow(a, s, flags) : a \in after_txs}}

(* DeStateDetectStartDetection(s, p, f, flags, alproto, alversion): the set  *)
(* of runs.  On a protocol with transactions and an invalid app-layer state *)
(* the function goes to its end label at once; on a protocol without, a     *)
(* signature with DCE submatches takes the DCERPC matches and goes to end   *)
(* on a NULL state.  The return value of a run is its alert_cnt.            *)
DeStateDetectStartDetection(st, s, flags, alver) ==
    LET tx_id == st.inspect_id[DirIdx(flags)]
        total_txs == Len(st.txs)
        after_txs == StartTxLoop({StartEntry(st, alver)}, tx_id, total_txs, s, flags)
        runs == IF SupportsTxs
                THEN IF ~StateIsValid(alproto, st.alstate)
                     THEN {StartEntry(st, alver)}
                     ELSE UNION {StartFlow(a, s, flags) : a \in after_txs}
                ELSE IF s.dmatch /\ alproto \in DceProtos
                THEN IF st.alstate = ALSTATE_NULL
                     THEN {StartEntry(st, alver)}
                     ELSE UNION {StartFlow(a, s, flags)
                                    : a \in StartDce(StartEntry(st, alver), s, flags)}
                ELSE StartFlow(StartEntry(st, alver), s, flags)
    IN  {StartEnd(r) : r \in runs}

-----------------------------------------------------------------------------
(* DoInspectItem.                                                           *)

(* A reconsideration that re-opens every fully inspected item when the      *)
(* direction announces a new file, whether or not the item inspected files. *)
ReopenAnyFullItem(item_flags, dir_state_flags, flags) ==
    LET full == DE_STATE_FLAG_FULL_INSPECT \in item_flags
        tc == full /\ STREAM_TOCLIENT \in flags /\ FLAG_FILE_TC_NEW \in dir_state_flags
        f1 == IF tc THEN item_flags \ {DE_STATE_FLAG_FILE_TC_INSPECT,
                                       DE_STATE_FLAG_FULL_INSPECT}
              ELSE item_flags
        ts == full /\ STREAM_TOSERVER \in flags /\ FLAG_FILE_TS_NEW \in dir_state_flags
        f2 == IF ts THEN f1 \ {DE_STATE_FLAG_FILE_TS_INSPECT,
                               DE_STATE_FLAG_FULL_INSPECT}
              ELSE f1
    IN  IF DE_STATE_FLAG_FULL_INSPECT \in f2
        THEN [flags |-> f2, run |-> FALSE]
        ELSE IF DE_STATE_FLAG_SIG_CANT_MATCH \in f2
        THEN IF /\ STREAM_TOSERVER \in flags
                /\ DE_STATE_FLAG_FILE_TS_INSPECT \in f2
                /\ FLAG_FILE_TS_NEW \in dir_state_flags
             THEN [flags |-> f2 \ {DE_STATE_FLAG_FILE_TS_INSPECT,
                                   DE_STATE_FLAG_SIG_CANT_MATCH},
                   run |-> TRUE]
             ELSE IF /\ STREAM_TOCLIENT \in flags
                     /\ DE_STATE_FLAG_FILE_TC_INSPECT \in f2
                     /\ FLAG_FILE_TC_NEW \in dir_state_flags
             THEN [flags |-> f2 \ {DE_STATE_FLAG_FILE_TC_INSPECT,
                                   DE_STATE_FLAG_SIG_CANT_MATCH},
                   run |-> TRUE]
             ELSE [flags |-> f2, run |-> FALSE]
        ELSE [flags |-> f2, run |-> TRUE]

(* A reconsideration that forgets CANT_MATCH of an item it does not re-open. *)
ReopenForgetsCantMatch(item_flags, dir_state_flags, flags) ==
    LET files == item_flags \cap {DE_STATE_FLAG_FILE_TC_INSPECT,
                                  DE_STATE_FLAG_FILE_TS_INSPECT} # {}
        full == DE_STATE_FLAG_FULL_INSPECT \in item_flags
        tc == full /\ files /\ STREAM_TOCLIENT \in flags
                /\ FLAG_FILE_TC_NEW \in dir_state_flags
        f1 == IF tc THEN item_flags \ {DE_STATE_FLAG_FILE_TC_INSPECT,
                                       DE_STATE_FLAG_FULL_INSPECT}
              ELSE item_flags
        ts == full /\ files /\ STREAM_TOSERVER \in flags
                /\ FLAG_FILE_TS_NEW \in dir_state_flags
        f2 == IF ts THEN f1 \ {DE_STATE_FLAG_FILE_TS_INSPECT,
                               DE_STATE_FLAG_FULL_INSPECT}
              ELSE f1
    IN  IF DE_STATE_FLAG_FULL_INSPECT \in f2
        THEN [flags |-> f2, run |-> FALSE]
        ELSE IF DE_STATE_FLAG_SIG_CANT_MATCH \in f2
        THEN IF /\ STREAM_TOSERVER \in flags
                /\ DE_STATE_FLAG_FILE_TS_INSPECT \in f2
                /\ FLAG_FILE_TS_NEW \in dir_state_flags
             THEN [flags |-> f2 \ {DE_STATE_FLAG_FILE_TS_INSPECT,
                                   DE_STATE_FLAG_SIG_CANT_MATCH},
                   run |-> TRUE]
             ELSE IF /\ STREAM_TOCLIENT \in flags
                     /\ DE_STATE_FLAG_FILE_TC_INSPECT \in f2
                     /\ FLAG_FILE_TC_NEW \in dir_state_flags
             THEN [flags |-> f2 \ {DE_STATE_FLAG_FILE_TC_INSPECT,
                                   DE_STATE_FLAG_SIG_CANT_MATCH},
                   run |-> TRUE]
             ELSE [flags |-> f2 \ {DE_STATE_FLAG_SIG_CANT_MATCH}, run |-> FALSE]
        ELSE [flags |-> f2, run |-> TRUE]

(* The reconsideration of a stored item for a new file in the transaction   *)
(* (the two blocks before the engines run): the item's flags afterwards     *)
(* and whether the function goes on to the engines.                         *)
ItemReopen(item_flags, dir_state_flags, flags) ==
    LET \* item->flags & DE_STATE_FLAG_FULL_INSPECT, with a file flag
        files == item_flags \cap {DE_STATE_FLAG_FILE_TC_INSPECT,
                                  DE_STATE_FLAG_FILE_TS_INSPECT} # {}
        full == DE_STATE_FLAG_FULL_INSPECT \in item_flags
        tc == full /\ files /\ STREAM_TOCLIENT \in flags
                /\ FLAG_FILE_TC_NEW \in dir_state_flags
        f1 == IF tc THEN item_flags \ {DE_STATE_FLAG_FILE_TC_INSPECT,
                                       DE_STATE_FLAG_FULL_INSPECT}
              ELSE item_flags
        ts == full /\ files /\ STREAM_TOSERVER \in flags
                /\ FLAG_FILE_TS_NEW \in dir_state_flags
        f2 == IF ts THEN f1 \ {DE_STATE_FLAG_FILE_TS_INSPECT,
                               DE_STATE_FLAG_FULL_INSPECT}
              ELSE f1
    IN  IF DE_STATE_FLAG_FULL_INSPECT \in f2
        THEN [flags |-> f2, run |-> FALSE]
        ELSE IF DE_STATE_FLAG_SIG_CANT_MATCH \in f2
        THEN IF /\ STREAM_TOSERVER \in flags
                /\ DE_STATE_FLAG_FILE_TS_INSPECT \in f2
                /\ FLAG_FILE_TS_NEW \in dir_state_flags
             THEN [flags |-> f2 \ {DE_STATE_FLAG_FILE_TS_INSPECT,
                                   DE_STATE_FLAG_SIG_CANT_MATCH},
                   run |-> TRUE]
             ELSE IF /\ STREAM_TOCLIENT \in flags
                     /\ DE_STATE_FLAG_FILE_TC_INSPECT \in f2
                     /\ FLAG_FILE_TC_NEW \in dir_state_flags
             THEN [flags |-> f2 \ {DE_STATE_FLAG_FILE_TC_INSPECT,
                                   DE_STATE_FLAG_SIG_CANT_MATCH},
                   run |-> TRUE]
             ELSE [flags |-> f2, run |-> FALSE]
        ELSE [flags |-> f2, run |-> TRUE]

(* The engine loop of DoInspectItem: engines whose flag the item holds are  *)
(* passed over.                                                             *)
RECURSIVE ItemEngines(_, _, _)
ItemEngines(engines, s, item_flags) ==
    IF engines = <<>> THEN {EnginesDone}
    ELSE LET engine == Head(engines)
             rest == ItemEngines(Tail(engines), s, item_flags)
         IN  IF engine.inspect_flags \notin item_flags /\ engine.sm_list \in s.sm_lists
             THEN {EngineMatch(engine, o) : o \in rest}
                  \cup {EngineStop(engine, m) : m \in CallbackResults(engine) \ {SIG_MATCH}}
             ELSE rest

(* DoInspectItem on a valid app-layer state: the set of                     *)
(*   flags (the item's), mark (the signature is set to NO_NEW_STATE),       *)
(*   alert, r (return value), fnm, trace, ran (the engine loop was entered) *)
DoInspectItem(item, dir_state_flags, flags, inspect_tx_id, total_txs, inprogress, next_tx_no_progress) ==
    LET s == sig_array_def[item.sid]
        re == ItemReopen(item.flags, dir_state_flags, flags)
    IN  IF ~re.run
        THEN {[flags |-> re.flags,
               mark |-> TxIsLast(inspect_tx_id, total_txs) \/ inprogress
                           \/ next_tx_no_progress,
               alert |-> FALSE, r |-> 0, fnm |-> 0, trace |-> <<>>, ran |-> FALSE]}
        ELSE {LET done == o.total_matches > 0
                            /\ (o.exhausted
                                \/ DE_STATE_FLAG_SIG_CANT_MATCH \in o.inspect_flags)
                  inspect_flags == IF done
                                   THEN o.inspect_flags \cup {DE_STATE_FLAG_FULL_INSPECT}
                                   ELSE o.inspect_flags
              IN  [flags |-> re.flags \cup inspect_flags,
                   mark |-> TxIsLast(inspect_tx_id, total_txs),
                   alert |-> done /\ o.exhausted,
                   r |-> 1, fnm |-> o.fnm, trace |-> o.trace, ran |-> TRUE]
              : o \in ItemEngines(app_inspection_engine[DirIdx(flags)], s, re.flags)}

-----------------------------------------------------------------------------
(* DoInspectFlowRule.                                                       *)

(* The resumed walk from item->nm: answer 0 stops it, answer 2 sets         *)
(* CANT_MATCH, answer 1 counts a match.                                     *)
(* A resumed walk that starts over at the head of the list.                 *)
RECURSIVE WalkAgain(_, _)
WalkAgain(sm, s) ==
    IF sm = 0 \/ sm > s.amatch
    THEN {[sm |-> 0, total_matches |-> 0, cant |-> FALSE, trace |-> <<>>]}
    ELSE {[sm |-> sm, total_matches |-> 0, cant |-> FALSE, trace |-> <<0>>]}
         \cup {[o EXCEPT !.total_matches = @ + 1, !.trace = <<1>> \o @]
                  : o \in WalkAgain(sm + 1, s)}
         \cup {[o EXCEPT !.cant = TRUE, !.trace = <<2>> \o @]
                  : o \in WalkAgain(sm + 1, s)}

ResumeWalkFromHead(sm, s) == WalkAgain(IF sm = 0 THEN 0 ELSE 1, s)

RECURSIVE ResumeWalk(_, _)
ResumeWalk(sm, s) ==
    IF sm = 0 \/ sm > s.amatch
    THEN {[sm |-> 0, total_matches |-> 0, cant |-> FALSE, trace |-> <<>>]}
    ELSE {[sm |-> sm, total_matches |-> 0, cant |-> FALSE, trace |-> <<0>>]}
         \cup {[o EXCEPT !.total_matches = @ + 1, !.trace = <<1>> \o @]
                  : o \in ResumeWalk(sm + 1, s)}
         \cup {[o EXCEPT !.cant = TRUE, !.trace = <<2>> \o @]
                  : o \in ResumeWalk(sm + 1, s)}

(* DoInspectFlowRule: the set of                                            *)
(*   flags, nm (the item's), mark, alert, r, trace, ran.                    *)
(* alstate is what FlowGetAppState(f) hands out during the call.            *)
DoInspectFlowRule(item, flags) ==
    LET s == sig_array_def[item.sid]
    IN  IF item.flags \cap {DE_STATE_FLAG_FULL_INSPECT, DE_STATE_FLAG_SIG_CANT_MATCH} # {}
        THEN {[flags |-> item.flags, nm |-> item.nm, mark |-> TRUE, alert |-> FALSE,
               r |-> 0, trace |-> <<>>, ran |-> FALSE]}
        \* if (item->nm != NULL) { if (alstate == NULL) return -1;
        ELSE IF item.nm # 0 /\ alstate = ALSTATE_NULL
        THEN {[flags |-> item.flags, nm |-> item.nm, mark |-> FALSE, alert |-> FALSE,
               r |-> -1, trace |-> <<>>, ran |-> FALSE]}
        ELSE {LET done == o.total_matches > 0 /\ (o.sm = 0 \/ o.cant)
                  inspect_flags ==
                      (IF o.cant THEN {DE_STATE_FLAG_SIG_CANT_MATCH} ELSE {})
                      \cup (IF s.amatch # 0 /\ done
                            THEN {DE_STATE_FLAG_FULL_INSPECT} ELSE {})
              IN  [flags |-> item.flags \cup inspect_flags,
                   nm |-> o.sm,
                   mark |-> s.amatch # 0,
                   alert |-> s.amatch # 0 /\ done /\ o.sm = 0,
                   r |-> 1, trace |-> o.trace, ran |-> TRUE]
              \* for SMB the callback is asked only if (smb_state->dcerpc_present)
              : o \in IF /\ alproto \in {ALPROTO_SMB, ALPROTO_SMB2}
                         /\ alstate = ALSTATE_NO_DCERPC
                         /\ item.nm # 0
                      THEN {[sm |-> item.nm, total_matches |-> 0, cant |-> FALSE,
                             trace |-> <<>>]}
                      ELSE ResumeWalk(item.nm, s)}

-----------------------------------------------------------------------------
(* DeStateDetectContinueDetection.                                          *)
(*                                                                          *)
(* A run is a record of the locals and of what the function changed:        *)
(*   txs, f_de_state, detect_alversion, alerts, sig_array                   *)
(*   file_no_match, state_cnt: locals; failed: a record inspector gave -1   *)
(*   last_match, visited: what the run did (history)                        *)

ContinueEntry(st, alver) ==
    [alver |-> alver, txs |-> st.txs, f_de_state |-> st.f_de_state,
     detect_alversion |-> st.detect_alversion, alerts |-> st.alerts,
     sig_array |-> st.sig_array, file_no_match |-> 0, state_cnt |-> 0,
     failed |-> FALSE, last_match |-> st.last_match, visited |-> <<>>,
     versioned |-> FALSE, exit |-> "end", det_ctx |-> st.det_ctx, post |-> <<>>]

(* det_ctx->tx_id = inspect_tx_id; det_ctx->tx_id_set = 1, which            *)
(* DoInspectItem does once it goes on to the engines.                       *)
TxIdSet(ctx, inspect_tx_id, ran) ==
    IF ran THEN [ctx EXCEPT !.tx_id = inspect_tx_id, !.tx_id_set = 1] ELSE ctx

(* if (alert): det_ctx->flow_locked = 1; SigMatchSignaturesRunPostMatch;    *)
(* det_ctx->flow_locked = 0.  seen is the thread context the callbacks of   *)
(* the post match see, after the one they leave.                            *)
PostMatch(ctx) ==
    LET during == [ctx EXCEPT !.flow_locked = 1]
    IN  [seen |-> during, after |-> [during EXCEPT !.flow_locked = 0]]

(* The end label of the continue driver, after FLOWLOCK_UNLOCK:             *)
(* det_ctx->tx_id = 0; det_ctx->tx_id_set = 0                               *)
ContinueEnd(acc) == [acc EXCEPT !.det_ctx.tx_id = 0, !.det_ctx.tx_id_set = 0]

Mark(arr, sid, mark) ==
    IF mark THEN [arr EXCEPT ![sid] = DE_STATE_MATCH_NO_NEW_STATE] ELSE arr

(* The inspection of the item at <<chunk, slot>> pos of transaction         *)
(* inspect_tx_id, for every answer of the engines.                          *)
ContinueItem(acc, inspect_tx_id, total_txs, pos, flags, inprogress, next_tx_no_progress) ==
    LET d == DirIdx(flags)
        dir_state == acc.txs[inspect_tx_id + 1].de_state[d]
        item == dir_state.chunks[pos[1]][pos[2]]
        s == sig_array_def[item.sid]
    IN  {[acc EXCEPT
            !.txs[inspect_tx_id + 1].de_state[d].chunks[pos[1]][pos[2]].flags = o.flags,
            !.sig_array = Mark(@, item.sid, o.mark),
            !.alerts = IF o.alert
                       THEN PacketAlertAppend(@, s, inspect_tx_id,
                                {PACKET_ALERT_FLAG_STATE_MATCH, PACKET_ALERT_FLAG_TX})
                       ELSE @,
            !.file_no_match = @ + o.fnm,
            !.state_cnt = @ + 1,
            !.det_ctx = IF o.alert THEN PostMatch(TxIdSet(@, inspect_tx_id, o.ran)).after
                        ELSE TxIdSet(@, inspect_tx_id, o.ran),
            !.post = IF o.alert
                     THEN Append(@, PostMatch(TxIdSet(acc.det_ctx, inspect_tx_id, o.ran)).seen)
                     ELSE @,
            !.last_match = NoteResults(@, item.sid, inspect_tx_id, o.trace),
            !.visited = Append(@, [kind |-> "tx", tx_id |-> inspect_tx_id, pos |-> pos,
                                   sid |-> item.sid, before |-> item.flags,
                                   nm |-> 0, trace |-> o.trace, ran |-> o.ran,
                                   alert |-> o.alert, r |-> o.r, mark |-> o.mark])]
         : o \in DoInspectItem(item, dir_state.flags, flags, inspect_tx_id, total_txs,
                               inprogress, next_tx_no_progress)}

(* A walk over a transaction's records that ends with the file accounting   *)
(* of the start driver: the engines' CANT_MATCH_FILESTORE answers are      *)
(* added to the direction state's filestore_cnt.                            *)
RECURSIVE ContinueItemsCountFiles(_, _, _, _, _, _, _)
ContinueItemsCountFiles(accs, inspect_tx_id, total_txs, walk, flags, inprogress, next_tx_no_progress) ==
    IF walk = <<>>
    THEN {[a EXCEPT !.txs[inspect_tx_id + 1].de_state[DirIdx(flags)].filestore_cnt =
                        @ + a.file_no_match] : a \in accs}
    ELSE ContinueItemsCountFiles(
             UNION {ContinueItem(a, inspect_tx_id, total_txs, Head(walk), flags,
                                 inprogress, next_tx_no_progress) : a \in accs},
             inspect_tx_id, total_txs, Tail(walk), flags, inprogress, next_tx_no_progress)

RECURSIVE ContinueItems(_, _, _, _, _, _, _)
ContinueItems(accs, inspect_tx_id, total_txs, walk, flags, inprogress, next_tx_no_progress) ==
    IF walk = <<>> THEN accs
    ELSE ContinueItems(
             UNION {ContinueItem(a, inspect_tx_id, total_txs, Head(walk), flags,
                                 inprogress, next_tx_no_progress) : a \in accs},
             inspect_tx_id, total_txs, Tail(walk), flags, inprogress, next_tx_no_progress)

(* for ( ; inspect_tx_id < total_txs; inspect_tx_id++) of one run acc.      *)
RECURSIVE ContinueTxLoop(_, _, _, _)
ContinueTxLoop(acc, inspect_tx_id, total_txs, flags) ==
    IF inspect_tx_id >= total_txs THEN {acc}
    ELSE LET d == DirIdx(flags)
             inspect_tx == acc.txs[inspect_tx_id + 1]
             inspect_tx_inprogress == inspect_tx.progress[d] < CompletionStatus
             next_tx_no_progress ==
                 /\ ~TxIsLast(inspect_tx_id, total_txs)
                 /\ acc.txs[inspect_tx_id + 2].progress[d] = 0
         IN  IF inspect_tx.de_state = NULL
             \* continue: on to the next transaction
             THEN ContinueTxLoop(acc, inspect_tx_id + 1, total_txs, flags)
             ELSE LET \* state_cnt = 0, then the walk bounded by cnt
                      walk == Walk(inspect_tx.de_state[d], 0)
                      after == ContinueItems({[acc EXCEPT !.state_cnt = 0]},
                                   inspect_tx_id, total_txs, walk, flags,
                                   inspect_tx_inprogress, next_tx_no_progress)
                  IN  IF inspect_tx_inprogress THEN after
                      ELSE UNION {ContinueTxLoop(a, inspect_tx_id + 1, total_txs, flags)
                                     : a \in after}

(* The inspection of the flow rule at pos.                                  *)
ContinueFlowItem(acc, pos, flags) ==
    LET d == DirIdx(flags)
        item == acc.f_de_state[d].chunks[pos[1]][pos[2]]
        s == sig_array_def[item.sid]
    IN  {[acc EXCEPT
            !.f_de_state[d].chunks[pos[1]][pos[2]].flags = o.flags,
            !.f_de_state[d].chunks[pos[1]][pos[2]].nm = o.nm,
            !.sig_array = Mark(@, item.sid, o.mark),
            !.alerts = IF o.alert
                       THEN PacketAlertAppend(@, s, 0, {PACKET_ALERT_FLAG_STATE_MATCH})
                       ELSE @,
            !.state_cnt = IF o.r < 0 THEN @ ELSE @ + 1,
            !.det_ctx = IF o.alert THEN PostMatch(@).after ELSE @,
            !.post = IF o.alert THEN Append(@, PostMatch(acc.det_ctx).seen) ELSE @,
            \* if (r < 0) goto end
            !.failed = o.r < 0,
            !.visited = Append(@, [kind |-> "flow", tx_id |-> 0, pos |-> pos,
                                   sid |-> item.sid, before |-> item.flags,
                                   nm |-> item.nm, trace |-> o.trace, ran |-> o.ran,
                                   alert |-> o.alert, r |-> o.r, mark |-> o.mark])]
         : o \in DoInspectFlowRule(item, flags)}

RECURSIVE ContinueFlowItems(_, _, _)
ContinueFlowItems(accs, walk, flags) ==
    IF walk = <<>> THEN accs
    ELSE ContinueFlowItems(UNION {IF a.failed THEN {a}
                                  ELSE ContinueFlowItem(a, Head(walk), flags) : a \in accs},
                           Tail(walk), flags)

(* The walk over the flow rules starts at the value state_cnt was left      *)
(* with by the transaction loop.                                            *)
FlowWalk(acc, flags) == Walk(acc.f_de_state[DirIdx(flags)], acc.state_cnt)

(* Flow based state rules that store the version after a failed rule too.   *)
ContinueFlowStoresVersion(acc, flags) ==
    IF acc.f_de_state = NULL THEN {acc}
    ELSE {[a EXCEPT !.detect_alversion = DeStateStoreStateVersion(@, acc.alver, flags),
                    !.versioned = TRUE]
             : a \in ContinueFlowItems({acc}, FlowWalk(acc, flags), flags)}

(* continue on flow based state rules (AMATCH)                              *)
ContinueFlow(acc, flags) ==
    IF acc.f_de_state = NULL THEN {acc}
    ELSE {IF a.failed THEN a
          ELSE [a EXCEPT !.detect_alversion = DeStateStoreStateVersion(@, acc.alver, flags),
                         !.versioned = TRUE]
             : a \in ContinueFlowItems({acc}, FlowWalk(acc, flags), flags)}

(* DeStateDetectContinueDetection(p, f, flags, alproto, alversion): the set *)
(* of runs.  On a protocol with transactions and an invalid app-layer state *)
(* the function unlocks the flow and returns; on a protocol without, it     *)
(* goes to the flow rules at once.                                          *)
DeStateDetectContinueDetection(st, flags, alver) ==
    LET inspect_tx_id == st.inspect_id[DirIdx(flags)]
        total_txs == Len(st.txs)
        after_txs == IF SupportsTxs
                     THEN ContinueTxLoop(ContinueEntry(st, alver), inspect_tx_id,
                                         total_txs, flags)
                     ELSE {ContinueEntry(st, alver)}
    IN  IF SupportsTxs /\ ~StateIsValid(alproto, st.alstate)
        THEN {[ContinueEntry(st, alver) EXCEPT !.exit = "return"]}
        ELSE {ContinueEnd(r) : r \in UNION {ContinueFlow(a, flags) : a \in after_txs}}

-----------------------------------------------------------------------------
(* The pre-check, the inspect id and the resets.                            *)

(* HasStoredSigs(f, flags)                                                  *)
HasStoredSigs(st, flags) ==
    LET d == DirIdx(flags)
    IN  \/ st.f_de_state # NULL /\ st.f_de_state[d].cnt # 0
        \/ \E t \in 1..Len(st.txs) :
              /\ SupportsTxs /\ StateIsValid(alproto, st.alstate)
              /\ t - 1 >= st.inspect_id[d]
              /\ st.txs[t].de_state # NULL
              /\ st.txs[t].de_state[d].cnt # 0

(* A has_state that answers 2 on an unchanged version with STREAM_EOF too.  *)
HasStateIgnoresEof(st, alver, flags) ==
    IF /\ st.f_de_state # NULL
       /\ st.detect_alversion[DirIdx(flags)] = alver
    THEN 2
    ELSE IF HasStoredSigs(st, flags) THEN 1
    ELSE 0

(* DeStateFlowHasInspectableState(f, alproto, alversion, flags)             *)
DeStateFlowHasInspectableState(st, alver, flags) ==
    IF /\ STREAM_EOF \notin flags
       /\ st.f_de_state # NULL
       /\ st.detect_alversion[DirIdx(flags)] = alver
    THEN 2
    ELSE IF HasStoredSigs(st, flags) THEN 1
    ELSE 0

(* AppLayerParserSetTransactionInspectId, as DeStateUpdateInspectTransactionId *)
(* forwards to it: the inspect id moves past the transactions that are      *)
(* complete in the direction.                                               *)
RECURSIVE SetTransactionInspectId(_, _, _)
SetTransactionInspectId(tx_list, idx, d) ==
    IF idx < Len(tx_list) /\ tx_list[idx + 1].progress[d] >= CompletionStatus
    THEN SetTransactionInspectId(tx_list, idx + 1, d)
    ELSE idx

(* DeStateUpdateInspectTransactionId(f, direction): the inspect ids after   *)
(* the call, which does nothing without a parser state and an app-layer     *)
(* state.                                                                   *)
DeStateUpdateInspectTransactionId(st, d) ==
    IF st.alstate # ALSTATE_NULL
    THEN [st.inspect_id EXCEPT ![d] = SetTransactionInspectId(st.txs, @, d)]
    ELSE st.inspect_id

(* A reset that clears both directions whatever the mask.                   *)
ResetEveryDirection(state, direction) ==
    IF state = NULL THEN state
    ELSE [d \in Dirs |-> [state[d] EXCEPT !.cnt = 0, !.flags = {}]]

(* DetectEngineStateReset(state, direction)                                 *)
DetectEngineStateReset(state, direction) ==
    IF state = NULL THEN state
    ELSE [d \in Dirs |->
            IF (d = 0 /\ STREAM_TOSERVER \in direction)
                 \/ (d = 1 /\ STREAM_TOCLIENT \in direction)
            THEN [state[d] EXCEPT !.cnt = 0, !.flags = {}]
            ELSE state[d]]

(* DetectEngineStateResetTxs(f)                                             *)
MinId(a, b) == IF a < b THEN a ELSE b

(* A reset that starts at the to-server inspect id.                         *)
ResetTxsFromServerId(st) ==
    LET inspect_tx_id == st.inspect_id[0]
    IN  [t \in 1..Len(st.txs) |->
            IF t - 1 >= inspect_tx_id /\ st.txs[t].de_state # NULL
            THEN [st.txs[t] EXCEPT !.de_state =
                     [d \in Dirs |-> [@[d] EXCEPT !.cnt = 0, !.filestore_cnt = 0,
                                                  !.flags = {}]]]
            ELSE st.txs[t]]

DetectEngineStateResetTxs(st) ==
    LET inspect_tx_id == MinId(st.inspect_id[1], st.inspect_id[0])
    IN  [t \in 1..Len(st.txs) |->
            IF t - 1 >= inspect_tx_id /\ st.txs[t].de_state # NULL
            THEN [st.txs[t] EXCEPT !.de_state =
                     [d \in Dirs |-> [@[d] EXCEPT !.cnt = 0, !.filestore_cnt = 0,
                                                  !.flags = {}]]]
            ELSE st.txs[t]]

-----------------------------------------------------------------------------
(* The flow, its parser and the detection thread.                           *)

(* The state the functions work on; al is the alert list of the packet,     *)
(* marks the signature marks, oom whether the allocator may return NULL.    *)
Cur(al, marks, oom) ==
    [txs |-> txs, inspect_id |-> inspect_id, f_de_state |-> f_de_state,
     detect_alversion |-> detect_alversion, alerts |-> al, sgh |-> sgh,
     sig_array |-> marks, last_match |-> hist.last_match,
     fault |-> hist.fault, oom |-> oom, alstate |-> alstate, det_ctx |-> det_ctx]

(* The signature groups a flow is inspected with.                           *)
SigGroups == {{0}, {1}, {2}}

DirFlags(d) == IF d = 0 THEN {STREAM_TOSERVER} ELSE {STREAM_TOCLIENT}

NoCall == [op |-> "none", sid |-> 0, flags |-> {}, steps |-> <<>>, walk |-> <<>>,
           visited |-> <<>>, disabled |-> <<>>, ret |-> 0, valid |-> TRUE,
           dce |-> <<>>, post |-> <<>>, exit |-> "end"]

NoSigMarked == [s \in SigIds |-> DE_STATE_MATCH_HAS_NEW_STATE]

(* The thread context outside every call.                                   *)
NoTx == [tx_id |-> 0, tx_id_set |-> 0, flow_locked |-> 0]

NoAppends == [tx |-> [d \in Dirs |-> <<>>], flow |-> [d \in Dirs |-> <<>>]]

NoHist == [last_match |-> {}, fault |-> FALSE, alerted |-> {}, twice |-> {},
           call |-> NoCall, n |-> 0, fails |-> 0, ops |-> {}, appended |-> NoAppends, resets |-> 0,
           prefix |-> {}, whole |-> {}, written |-> [d \in Dirs |-> FALSE], stale |-> {},
           pending |-> [d \in Dirs |-> FALSE], again |-> {}, reopened |-> {}]

(* History of the answers the callbacks gave.  An answer is                 *)
(*   <<d, sid, tx, what, answer, fixed>>: direction, signature, the         *)
(*   transaction and the engine asked (or -i and "AMATCH" for the i-th      *)
(*   submatch of the flow-scoped list), what it answered, and whether more  *)
(*   input can change the answer: it cannot after MATCH, CANT_MATCH or      *)
(*   CANT_MATCH_FILESTORE, or once the transaction is complete.             *)
MatchName(match) == IF match = 1 THEN SIG_MATCH ELSE IF match = 2 THEN SIG_CANT_MATCH ELSE SIG_NO_MATCH

EngineAnswers(d, sid, tx_id, progress, trace) ==
    {<<d, sid, tx_id, trace[i][1], trace[i][2],
       trace[i][2] # SIG_NO_MATCH \/ progress >= CompletionStatus>> : i \in DOMAIN trace}

WalkAnswers(d, sid, sm, trace) ==
    {<<d, sid, 1 - sm - i, "AMATCH", MatchName(trace[i]), trace[i] # 0>> : i \in DOMAIN trace}

(* The answers a run of DeStateDetectStartDetection got.                    *)
StartAnswers(run, sid, d) ==
    UNION {EngineAnswers(d, sid, run.steps[i].tx_id, run.steps[i].progress,
                         run.steps[i].trace) : i \in DOMAIN run.steps}
        \cup WalkAnswers(d, sid, 1, run.walk)

(* The answers a run of DeStateDetectContinueDetection got.                 *)
ContinueAnswers(run, d) ==
    UNION {LET v == run.visited[i]
           IN  IF v.kind = "tx"
               THEN EngineAnswers(d, v.sid, v.tx_id, run.txs[v.tx_id + 1].progress[d], v.trace)
               ELSE WalkAnswers(d, v.sid, v.nm, v.trace)
           : i \in DOMAIN run.visited}

(* The alerts of a run that the packet did not hold before it.              *)
NewAlerts(before, after) == SubSeq(after, Len(before) + 1, Len(after))

(* An alert's signature and transaction (-1: the alert names none) and the  *)
(* direction d of the packet it was raised on.                              *)
AlertKey(a, d) == <<a.sid, IF PACKET_ALERT_FLAG_TX \in a.flags THEN a.tx_id ELSE -1, d>>

AlertKeys(al, d) == {AlertKey(al[i], d) : i \in DOMAIN al}

(* The keys that al holds more than once, or that were alerted before.      *)
AlertedAgain(before, al, d) ==
    {k \in AlertKeys(al, d) :
        \/ k \in before
        \/ Cardinality({i \in DOMAIN al : AlertKey(al[i], d) = k}) > 1}

FreshTx == [progress |-> [d \in Dirs |-> 0], de_state |-> NULL]

NoPacket == [flags |-> {}, has_state |-> 0, n |-> 0, next_sig |-> 0, dirty |-> FALSE]

InitFlow ==
    /\ inspect_id = [d \in Dirs |-> 0]
    /\ alversion = 0
    /\ f_de_state = NULL
    /\ detect_alversion = [d \in Dirs |-> 0]
    /\ sig_array = NoSigMarked
    /\ alerts = <<>>
    /\ hist = NoHist
    /\ det_ctx = NoTx
    /\ alproto = ALPROTO_HTTP
    /\ alstate = ALSTATE_VALID
    /\ flow_m = 0
    /\ worker = [w \in Workers |-> Idle]

(* The transaction inspections the calls of a behaviour may make together.  *)
Budget ==
    IF pc = "file" THEN MaxFileCalls
    ELSE IF pc = "reopen" THEN MaxReopenCalls
    ELSE IF pc = "order" THEN MaxOrderCalls
    ELSE IF pc = "invalid" THEN MaxInvalidCalls
    ELSE IF pc = "lock" THEN MaxLockCalls
    ELSE IF pc = "dce" THEN MaxDceCalls
    ELSE IF pc = "mark" THEN MaxMarkCalls
    ELSE MaxInspections

(* The behaviours in which the functions are called one by one.             *)
Drivers == {"api", "file", "has", "reopen", "order", "invalid", "lock", "dce", "mark"}

(* The parser runs only while the caller is between two calls and has       *)
(* calls left.                                                              *)
ParserMayRun ==
    \/ pc = "idle" /\ pkt.n < MaxPkts
    \/ pc \in Drivers /\ hist.n < Budget

(* The parser ran: the app-layer version moves once per burst of input.     *)
(* History: no direction has its version written since.                     *)
Parsed ==
    /\ alversion' = IF pkt.dirty THEN alversion ELSE alversion + 1
    /\ pkt' = [pkt EXCEPT !.dirty = TRUE]
    /\ hist' = [hist EXCEPT !.written = [d \in Dirs |-> FALSE]]

(* The parser opens a transaction.                                          *)
EnvNewTx ==
    /\ ParserMayRun
    /\ StateIsValid(alproto, alstate)
    /\ Len(txs) < MaxTxs
    /\ txs' = Append(txs, FreshTx)
    /\ Parsed
    /\ UNCHANGED <<det_ctx, alproto, alstate, flow_m, worker, inspect_id, f_de_state, detect_alversion, sgh, sig_array, alerts, pc>>

(* The parser advances a transaction in a direction; the response is        *)
(* parsed once the request is complete.                                     *)
EnvProgress(t, d) ==
    /\ ParserMayRun
    /\ StateIsValid(alproto, alstate)
    /\ t \in 1..Len(txs)
    /\ txs[t].progress[d] < CompletionStatus
    /\ d = 1 => txs[t].progress[0] = CompletionStatus
    /\ txs' = [txs EXCEPT ![t].progress[d] = @ + 1]
    /\ Parsed
    /\ UNCHANGED <<det_ctx, alproto, alstate, flow_m, worker, inspect_id, f_de_state, detect_alversion, sgh, sig_array, alerts, pc>>

(* The new-file flags raised in the transactions' detect states.            *)
NewFiles ==
    {<<t, d>> \in (1..Len(txs)) \X Dirs :
        /\ txs[t].de_state # NULL
        /\ txs[t].de_state[d].flags \cap {FLAG_FILE_TS_NEW, FLAG_FILE_TC_NEW} # {}}

(* The parser opens a new file in a transaction that has a detect state.    *)
EnvNewFile(t, d) ==
    /\ pc \in Drivers /\ hist.n < Budget
    /\ StateIsValid(alproto, alstate)
    /\ Cardinality(NewFiles) < MaxFiles
    /\ t \in 1..Len(txs)
    /\ txs[t].de_state # NULL
    /\ LET flag == IF d = 0 THEN FLAG_FILE_TS_NEW ELSE FLAG_FILE_TC_NEW
       IN  /\ flag \notin txs[t].de_state[d].flags
           /\ txs' = [txs EXCEPT ![t].de_state[d].flags = @ \cup {flag}]
    /\ Parsed
    /\ UNCHANGED <<det_ctx, alproto, alstate, flow_m, worker, inspect_id, f_de_state, detect_alversion, sgh, sig_array, alerts, pc>>

-----------------------------------------------------------------------------
(* The caller's per-packet sequence.                                        *)

Init ==
    /\ InitFlow
    /\ pkt = NoPacket
    /\ txs = <<>>
    /\ sgh \in SigGroups
    /\ pc = "idle"

(* A packet arrives: the caller clears the signature marks and asks         *)
(* DeStateFlowHasInspectableState.                                          *)
PktHasState(d, eof) ==
    /\ pc = "idle"
    /\ pkt.n < MaxPkts
    /\ Len(txs) > 0
    /\ LET flags == DirFlags(d) \cup (IF eof THEN {STREAM_EOF} ELSE {})
           r == DeStateFlowHasInspectableState(Cur(<<>>, NoSigMarked, FALSE),
                                               alversion, flags)
       IN  /\ pkt' = [flags |-> flags, has_state |-> r, n |-> pkt.n + 1,
                      next_sig |-> 0, dirty |-> FALSE]
           /\ pc' = IF r = 1 THEN "continue" ELSE IF r = 2 THEN "update" ELSE "start"
    /\ sig_array' = NoSigMarked
    /\ alerts' = <<>>
    /\ UNCHANGED <<det_ctx, alproto, alstate, flow_m, worker, txs, inspect_id, alversion, f_de_state, detect_alversion, sgh, hist>>

(* History of DeStateStoreStateVersion for direction d.                     *)
Versioned(h, d, wrote) ==
    IF wrote THEN [h EXCEPT !.written[d] = TRUE, !.pending[d] = FALSE] ELSE h

(* The records of direction d, of the flow and of every transaction.        *)
RECURSIVE TxRecordTotal(_, _)
TxRecordTotal(tx_list, d) ==
    IF tx_list = <<>> THEN 0
    ELSE (IF Head(tx_list).de_state = NULL THEN 0 ELSE Head(tx_list).de_state[d].cnt)
         + TxRecordTotal(Tail(tx_list), d)

RecordTotal(flow_state, tx_list, d) ==
    (IF flow_state = NULL THEN 0 ELSE flow_state[d].cnt) + TxRecordTotal(tx_list, d)

(* History of FileDisableStoringForTransaction: the transactions and        *)
(* directions for which a run of the start driver called it while the       *)
(* direction state had FILE_STORE_DISABLED from an earlier call.            *)
Redisabled(h, d, run) ==
    [h EXCEPT !.again = @ \cup
        {<<run.disabled[i], d>> : i \in {j \in DOMAIN run.disabled :
            LET tx == txs[run.disabled[j] + 1]
            IN  /\ tx.de_state # NULL
                /\ FLAG_FILE_STORE_DISABLED \in tx.de_state[d].flags}}]

(* History of the appends of a start call in direction d: a record was      *)
(* appended and the version of d was not stored after it.                   *)
Grown(h, d, run) ==
    IF run.versioned THEN h
    ELSE [h EXCEPT !.pending[d] =
              @ \/ RecordTotal(run.f_de_state, run.txs, d) > RecordTotal(f_de_state, txs, d)]

(* What a run's alerts add to the history.                                  *)
Alerted(h, al, d) ==
    [h EXCEPT !.alerted = @ \cup AlertKeys(al, d),
              !.twice = @ \cup AlertedAgain(h.alerted, al, d)]

(* The first packet of a flow sees a prefix of the input, the second the    *)
(* whole of it.                                                             *)
Answered(h, answers) ==
    IF pkt.n = 1 THEN [h EXCEPT !.prefix = @ \cup answers]
    ELSE [h EXCEPT !.whole = @ \cup answers]

(* The places <<transaction, direction, place>> of the records on which a   *)
(* continue run cleared FULL_INSPECT for a new file and ran the engines.    *)
Reopens(visited, d) ==
    {<<visited[i].tx_id + 1, d,
       (visited[i].pos[1] - 1) * DE_STATE_CHUNK_SIZE + visited[i].pos[2] - 1>>
        : i \in {j \in DOMAIN visited :
                    /\ visited[j].kind = "tx"
                    /\ visited[j].ran
                    /\ DE_STATE_FLAG_FULL_INSPECT \in visited[j].before}}

(* History of the re-opens of a continue run in direction d.                *)
Reopened(h, run, d) == [h EXCEPT !.reopened = @ \cup Reopens(run.visited, d)]

(* has_state == 1: DeStateDetectContinueDetection                           *)
PktContinue ==
    /\ pc = "continue"
    /\ \E run \in DeStateDetectContinueDetection(Cur(alerts, sig_array, FALSE),
                                                 pkt.flags, alversion) :
          /\ txs' = run.txs
          /\ f_de_state' = run.f_de_state
          /\ detect_alversion' = run.detect_alversion
          /\ alerts' = run.alerts
          /\ det_ctx' = run.det_ctx
          /\ sig_array' = run.sig_array
          /\ hist' = Reopened(Versioned(
                         Answered(Alerted(hist, NewAlerts(alerts, run.alerts), DirIdx(pkt.flags)),
                                  ContinueAnswers(run, DirIdx(pkt.flags))),
                         DirIdx(pkt.flags), run.versioned), run, DirIdx(pkt.flags))
    /\ pc' = "start"
    /\ UNCHANGED <<alproto, alstate, flow_m, worker, inspect_id, alversion, sgh, pkt>>

(* A candidate signature that is not marked NO_NEW_STATE:                   *)
(* DeStateDetectStartDetection                                              *)
PktStart(sid) ==
    /\ pc = "start"
    /\ sid \in sgh
    /\ sid >= pkt.next_sig
    /\ sig_array[sid] # DE_STATE_MATCH_NO_NEW_STATE
    /\ \E run \in DeStateDetectStartDetection(Cur(alerts, sig_array, FALSE),
                                              sig_array_def[sid], pkt.flags, alversion) :
          /\ txs' = run.txs
          /\ f_de_state' = run.f_de_state
          /\ detect_alversion' = run.detect_alversion
          /\ alerts' = run.alerts
          /\ det_ctx' = run.det_ctx
          /\ hist' = [Redisabled(Grown(Versioned(
                          Answered(Alerted(hist, NewAlerts(alerts, run.alerts), DirIdx(pkt.flags)),
                                   StartAnswers(run, sid, DirIdx(pkt.flags))),
                          DirIdx(pkt.flags), run.versioned), DirIdx(pkt.flags), run),
                                    DirIdx(pkt.flags), run)
                         EXCEPT !.fault = run.fault]
    /\ pkt' = [pkt EXCEPT !.next_sig = sid + 1]
    /\ UNCHANGED <<alproto, alstate, flow_m, worker, inspect_id, alversion, sgh, sig_array, pc>>

(* The end of the packet: DeStateUpdateInspectTransactionId                 *)
PktUpdate ==
    /\ pc \in {"start", "update"}
    /\ LET d == DirIdx(pkt.flags)
       IN  inspect_id' = DeStateUpdateInspectTransactionId(Cur(<<>>, NoSigMarked, FALSE), d)
    /\ pc' = "idle"
    /\ UNCHANGED <<det_ctx, alproto, alstate, flow_m, worker, txs, alversion, f_de_state, detect_alversion, sgh, sig_array, alerts, pkt, hist>>

Next ==
    \/ EnvNewTx
    \/ \E t \in 1..MaxTxs, d \in Dirs : EnvProgress(t, d)
    \/ \E d \in Dirs, eof \in BOOLEAN : PktHasState(d, eof)
    \/ PktContinue
    \/ \E sid \in SigIds : PktStart(sid)
    \/ PktUpdate

Spec == Init /\ [][Next]_vars

-----------------------------------------------------------------------------
(* The functions called one by one, in any order, on a fresh packet each,   *)
(* with an allocator that may fail.  The packets of a behaviour travel in   *)
(* one direction, pkt.flags.                                                *)

InitApi ==
    /\ InitFlow
    /\ \E d \in Dirs : pkt = [NoPacket EXCEPT !.flags = DirFlags(d)]
    /\ txs = <<>>
    /\ sgh \in SigGroups
    /\ pc = "api"

(* The transactions a driver called for direction d goes through, which is  *)
(* what a call costs of the inspections a behaviour may make.               *)
Cost(d) == IF Len(txs) - inspect_id[d] > 1 THEN Len(txs) - inspect_id[d] ELSE 1

MayFail == pc \notin {"reopen", "order", "invalid", "dce", "mark"} /\ hist.fails < MaxAllocFails

(* History: the places <<tx, direction, place>> whose record was stored     *)
(* before the last DetectEngineStateResetTxs and not written since.         *)
Overwritten(steps, after, d) ==
    {<<steps[i].tx_id, d, steps[i].cnt>> : i \in {j \in DOMAIN steps :
        /\ after[steps[j].tx_id + 1].de_state # NULL
        /\ after[steps[j].tx_id + 1].de_state[d].cnt > steps[j].cnt}}

StalePlaces(tx_list, now) ==
    UNION {{<<x[1] - 1, x[2], i>> : i \in 0..(tx_list[x[1]].de_state[x[2]].cnt - 1)}
              : x \in {y \in (1..Len(tx_list)) \X Dirs :
                          /\ tx_list[y[1]].de_state # NULL
                          /\ now[y[1]].de_state[y[2]].cnt = 0}}

(* What a reset costs of the calls a behaviour may make.                    *)
ResetAllowed ==
    IF pc = "api" THEN hist.n < MaxInspections
    ELSE pc \in {"has", "reopen"} /\ hist.resets < MaxResets

Called(h, op, cost) == [h EXCEPT !.n = @ + cost, !.ops = @ \cup {op}]

Reset(h, op) ==
    IF pc = "api" THEN Called(h, op, 1)
    ELSE [h EXCEPT !.resets = @ + 1, !.ops = @ \cup {op}]

ApiStart(sid, d) ==
    /\ pc \in Drivers
    /\ hist.n + Cost(d) <= Budget
    /\ SupportsTxs => Len(txs) > 0
    /\ sid \in sgh
    /\ \E run \in DeStateDetectStartDetection(Cur(<<>>, NoSigMarked, MayFail),
                                              sig_array_def[sid], DirFlags(d), alversion) :
          /\ txs' = run.txs
          /\ f_de_state' = run.f_de_state
          /\ detect_alversion' = run.detect_alversion
          /\ alerts' = run.alerts
          /\ det_ctx' = run.det_ctx
          /\ hist' = [Called(Redisabled(Grown(Versioned(Alerted(hist, run.alerts, d), d,
                                                          run.versioned),
                                                 d, run), d, run),
                                "start", Cost(d)) EXCEPT
                         !.fault = run.fault,
                         !.stale = @ \ Overwritten(run.steps, run.txs, d),
                         !.fails = IF run.oomed THEN @ + 1 ELSE @,
                         !.last_match = run.last_match,
                         !.call = [op |-> "start", sid |-> sid, flags |-> DirFlags(d),
                                   steps |-> run.steps, walk |-> run.walk,
                                   visited |-> <<>>, disabled |-> run.disabled,
                                   ret |-> run.alert_cnt,
                                   valid |-> StateIsValid(alproto, alstate),
                                   dce |-> run.dce, post |-> run.post,
                                   exit |-> run.exit]]
    /\ sig_array' = NoSigMarked
    /\ pkt' = [pkt EXCEPT !.dirty = FALSE]
    /\ UNCHANGED <<alproto, alstate, flow_m, worker, inspect_id, alversion, sgh, pc>>

ApiContinue(d) ==
    /\ pc \in Drivers
    /\ hist.n + Cost(d) <= Budget
    /\ SupportsTxs => Len(txs) > 0
    /\ \E run \in DeStateDetectContinueDetection(Cur(<<>>, NoSigMarked, FALSE),
                                                 DirFlags(d), alversion) :
          /\ txs' = run.txs
          /\ f_de_state' = run.f_de_state
          /\ detect_alversion' = run.detect_alversion
          /\ alerts' = run.alerts
          /\ det_ctx' = run.det_ctx
          /\ sig_array' = run.sig_array
          /\ hist' = [Called(Reopened(Versioned(Alerted(hist, run.alerts, d), d,
                                                   run.versioned), run, d),
                                "continue", Cost(d)) EXCEPT
                         !.last_match = run.last_match,
                         !.call = [op |-> "continue", sid |-> 0, flags |-> DirFlags(d),
                                   steps |-> <<>>, walk |-> <<>>,
                                   visited |-> run.visited, disabled |-> <<>>,
                                   ret |-> 0, valid |-> StateIsValid(alproto, alstate),
                                   dce |-> <<>>, post |-> run.post,
                                   exit |-> run.exit]]
    /\ pkt' = [pkt EXCEPT !.dirty = FALSE]
    /\ UNCHANGED <<alproto, alstate, flow_m, worker, inspect_id, alversion, sgh, pc>>

(* DeStateUpdateInspectTransactionId(f, direction)                          *)
ApiUpdate(d) ==
    /\ pc \in {"api", "has", "reopen", "order", "invalid"}
    /\ hist.n < Budget
    /\ inspect_id' = DeStateUpdateInspectTransactionId(Cur(<<>>, NoSigMarked, FALSE), d)
    /\ inspect_id' # inspect_id
    /\ UNCHANGED <<det_ctx, alproto, alstate, flow_m, worker, txs, alversion, f_de_state, detect_alversion, sgh, sig_array, alerts,
                   pc, pkt, hist>>

ApiReset(direction) ==
    /\ ResetAllowed
    /\ f_de_state # NULL
    /\ f_de_state' = DetectEngineStateReset(f_de_state, direction)
    /\ hist' = [Reset(hist, "reset") EXCEPT !.call = [NoCall EXCEPT !.op = "reset",
                                                                  !.flags = direction]]
    /\ UNCHANGED <<det_ctx, alproto, alstate, flow_m, worker, txs, inspect_id, alversion, detect_alversion, sgh, sig_array, alerts,
                   pc, pkt>>

ApiResetTxs ==
    /\ ResetAllowed
    /\ \E t \in 1..Len(txs) : txs[t].de_state # NULL
    /\ txs' = DetectEngineStateResetTxs(Cur(<<>>, NoSigMarked, TRUE))
    /\ hist' = [Reset(hist, "reset_txs") EXCEPT
                   !.call = [NoCall EXCEPT !.op = "reset_txs"],
                   !.stale = @ \cup StalePlaces(txs, txs')]
    /\ UNCHANGED <<det_ctx, alproto, alstate, flow_m, worker, inspect_id, alversion, f_de_state, detect_alversion, sgh, sig_array,
                   alerts, pc, pkt>>

NextApi ==
    \/ EnvNewTx
    \/ \E t \in 1..MaxTxs, d \in Dirs : EnvProgress(t, d)
    \/ \E t \in 1..MaxTxs, d \in Dirs : EnvNewFile(t, d)
    \/ \E sid \in SigIds : ApiStart(sid, DirIdx(pkt.flags))
    \/ ApiContinue(DirIdx(pkt.flags))
    \/ ApiUpdate(DirIdx(pkt.flags))
    \/ \E direction \in {{STREAM_TOSERVER}, {STREAM_TOCLIENT},
                         {STREAM_TOSERVER, STREAM_TOCLIENT}} : ApiReset(direction)
    \/ ApiResetTxs

SpecApi == InitApi /\ [][NextApi]_vars

(* Two transactions inspected to the server by start and continue calls,    *)
(* for a signature with engine lists only and for one with flow-scoped      *)
(* submatches as well: the order in which a continue call goes through the  *)
(* stored records.                                                          *)
OrderSigGroups == {{0}, {2}}

InitOrder ==
    /\ InitFlow
    /\ pkt = [NoPacket EXCEPT !.flags = {STREAM_TOSERVER}]
    /\ txs = <<FreshTx, FreshTx>>
    /\ sgh \in OrderSigGroups
    /\ pc = "order"

NextOrder ==
    \/ \E t \in 1..2 : EnvProgress(t, 0)
    \/ \E sid \in SigIds : ApiStart(sid, 0)
    \/ ApiContinue(0)
    \/ ApiUpdate(0)

SpecOrder == InitOrder /\ [][NextOrder]_vars

(* The calls on a flow whose app-layer state may be missing, or without its *)
(* connection, when a function asks for it, for a signature with an engine  *)
(* list and flow-scoped submatches.                                         *)
EnvState(state) ==
    /\ pc \in {"invalid", "lock"}
    /\ hist.n < Budget
    /\ flow_m = 0
    /\ state # alstate
    /\ alstate' = state
    /\ UNCHANGED <<det_ctx, alproto, txs, inspect_id, alversion, f_de_state, detect_alversion, sgh,
                   sig_array, alerts, pc, pkt, flow_m, worker, hist>>

InitInvalid ==
    /\ InitFlow
    /\ pkt = [NoPacket EXCEPT !.flags = {STREAM_TOSERVER}]
    /\ txs = <<FreshTx>>
    /\ sgh = {2}
    /\ pc = "invalid"

NextInvalid ==
    \/ EnvProgress(1, 0)
    \/ \E state \in AlStates : EnvState(state)
    \/ ApiStart(2, 0)
    \/ ApiContinue(0)
    \/ ApiUpdate(0)

SpecInvalid == InitInvalid /\ [][NextInvalid]_vars

(* A flow of a protocol without transactions, DCERPC, SMB or SMB2, with a   *)
(* signature that has DCE submatches only or one that has flow-scoped       *)
(* submatches as well.  The parser runs: the state of the flow comes and    *)
(* goes, and for SMB its DCERPC part too.                                   *)
DceSigGroups == {{5}, {6}, {5, 6}}
DceStates == {ALSTATE_NULL, ALSTATE_VALID, ALSTATE_NO_DCERPC}

EnvDceState(state) ==
    /\ pc = "dce"
    /\ hist.n < Budget
    /\ state # alstate
    /\ state = ALSTATE_NO_DCERPC => alproto \in {ALPROTO_SMB, ALPROTO_SMB2}
    /\ alstate' = state
    /\ Parsed
    /\ UNCHANGED <<det_ctx, alproto, txs, inspect_id, f_de_state, detect_alversion, sgh,
                   sig_array, alerts, pc, flow_m, worker>>

InitDce ==
    /\ inspect_id = [d \in Dirs |-> 0]
    /\ alversion = 0
    /\ f_de_state = NULL
    /\ detect_alversion = [d \in Dirs |-> 0]
    /\ sig_array = NoSigMarked
    /\ alerts = <<>>
    /\ hist = NoHist
    /\ det_ctx = NoTx
    /\ alproto \in DceProtos
    /\ alstate = ALSTATE_VALID
    /\ flow_m = 0
    /\ worker = [w \in Workers |-> Idle]
    /\ \E d \in Dirs : pkt = [NoPacket EXCEPT !.flags = DirFlags(d)]
    /\ txs = <<>>
    /\ sgh \in DceSigGroups
    /\ pc = "dce"

NextDce ==
    \/ \E state \in DceStates : EnvDceState(state)
    \/ \E sid \in DceSigs : ApiStart(sid, DirIdx(pkt.flags))
    \/ ApiContinue(DirIdx(pkt.flags))

SpecDce == InitDce /\ [][NextDce]_vars

-----------------------------------------------------------------------------
(* Worker threads calling the functions on one flow.  A call starts at the  *)
(* function's FLOWLOCK_WRLOCK, runs the function under the lock and leaves  *)
(* through the exit the run took, where FLOWLOCK_UNLOCK is called or not.   *)

(* The functions that take the flow's lock as their first statement.        *)
LockedFunctions == {"start", "continue", "has_state", "update"}

FlowLocks(fn) == fn \in LockedFunctions

(* The exits of the functions on which FLOWLOCK_UNLOCK is called: the end   *)
(* label of the drivers, the early return of the continue driver, the end   *)
(* of the two short functions.                                              *)
Unlocking == {<<"start", "end">>, <<"continue", "return">>, <<"continue", "end">>,
              <<"has_state", "end">>, <<"update", "end">>}

(* A continue driver whose early return leaves the flow locked.             *)
ContinueReturnKeepsLock(fn, exit) == <<fn, exit>> \in Unlocking \ {<<"continue", "return">>}

FlowUnlocks(fn, exit) == <<fn, exit>> \in Unlocking

(* A worker calls a function: it arrives at FLOWLOCK_WRLOCK.                *)
LockCall(w, fn, sid) ==
    /\ pc = "lock"
    /\ hist.n < Budget
    /\ worker[w].at = "idle"
    /\ fn = "start" => sid \in sgh
    /\ fn # "start" => sid = 0
    /\ worker' = [worker EXCEPT ![w] = [fn |-> fn, sid |-> sid, exit |-> "none",
                                         at |-> IF FlowLocks(fn) THEN "wrlock" ELSE "body"]]
    /\ hist' = Called(hist, fn, 1)
    /\ UNCHANGED <<det_ctx, alproto, txs, inspect_id, alversion, f_de_state, detect_alversion, sgh,
                   sig_array, alerts, pc, pkt, alstate, flow_m>>

(* FLOWLOCK_WRLOCK(f) returns: the lock was free and is the worker's.       *)
LockAcquire(w) ==
    /\ worker[w].at = "wrlock"
    /\ flow_m = 0
    /\ flow_m' = w
    /\ worker' = [worker EXCEPT ![w].at = "body"]
    /\ UNCHANGED <<det_ctx, alproto, txs, inspect_id, alversion, f_de_state, detect_alversion, sgh,
                   sig_array, alerts, pc, pkt, alstate, hist>>

(* The body of DeStateDetectStartDetection up to its exit.                  *)
LockStart(w) ==
    /\ worker[w].at = "body"
    /\ worker[w].fn = "start"
    /\ \E run \in DeStateDetectStartDetection(Cur(<<>>, NoSigMarked, FALSE),
                                              sig_array_def[worker[w].sid], pkt.flags,
                                              alversion) :
          /\ txs' = run.txs
          /\ f_de_state' = run.f_de_state
          /\ detect_alversion' = run.detect_alversion
          /\ alerts' = run.alerts
          /\ det_ctx' = run.det_ctx
          /\ hist' = [hist EXCEPT !.last_match = run.last_match, !.fault = run.fault]
          /\ worker' = [worker EXCEPT ![w].at = "exit", ![w].exit = run.exit]
    /\ sig_array' = NoSigMarked
    /\ UNCHANGED <<alproto, inspect_id, alversion, sgh, pc, pkt, alstate, flow_m>>

(* The body of DeStateDetectContinueDetection up to its exit.               *)
LockContinue(w) ==
    /\ worker[w].at = "body"
    /\ worker[w].fn = "continue"
    /\ \E run \in DeStateDetectContinueDetection(Cur(<<>>, NoSigMarked, FALSE),
                                                 pkt.flags, alversion) :
          /\ txs' = run.txs
          /\ f_de_state' = run.f_de_state
          /\ detect_alversion' = run.detect_alversion
          /\ alerts' = run.alerts
          /\ det_ctx' = run.det_ctx
          /\ sig_array' = run.sig_array
          /\ hist' = [hist EXCEPT !.last_match = run.last_match]
          /\ worker' = [worker EXCEPT ![w].at = "exit", ![w].exit = run.exit]
    /\ UNCHANGED <<alproto, inspect_id, alversion, sgh, pc, pkt, alstate, flow_m>>

(* The body of DeStateFlowHasInspectableState: it reads the flow.           *)
LockHasState(w) ==
    /\ worker[w].at = "body"
    /\ worker[w].fn = "has_state"
    /\ DeStateFlowHasInspectableState(Cur(<<>>, NoSigMarked, FALSE), alversion, pkt.flags)
           \in {0, 1, 2}
    /\ worker' = [worker EXCEPT ![w].at = "exit", ![w].exit = "end"]
    /\ UNCHANGED <<det_ctx, alproto, txs, inspect_id, alversion, f_de_state, detect_alversion, sgh,
                   sig_array, alerts, pc, pkt, alstate, flow_m, hist>>

(* The body of DeStateUpdateInspectTransactionId.                           *)
LockUpdate(w) ==
    /\ worker[w].at = "body"
    /\ worker[w].fn = "update"
    /\ inspect_id' = DeStateUpdateInspectTransactionId(Cur(<<>>, NoSigMarked, FALSE),
                                                        DirIdx(pkt.flags))
    /\ worker' = [worker EXCEPT ![w].at = "exit", ![w].exit = "end"]
    /\ UNCHANGED <<det_ctx, alproto, txs, alversion, f_de_state, detect_alversion, sgh,
                   sig_array, alerts, pc, pkt, alstate, flow_m, hist>>

(* The function returns through its exit.                                   *)
LockReturn(w) ==
    /\ worker[w].at = "exit"
    /\ flow_m' = IF FlowUnlocks(worker[w].fn, worker[w].exit) THEN 0 ELSE flow_m
    /\ worker' = [worker EXCEPT ![w] = Idle]
    /\ UNCHANGED <<det_ctx, alproto, txs, inspect_id, alversion, f_de_state, detect_alversion, sgh,
                   sig_array, alerts, pc, pkt, alstate, hist>>

InitLock ==
    /\ InitFlow
    /\ pkt = [NoPacket EXCEPT !.flags = {STREAM_TOSERVER}]
    /\ txs = <<FreshTx>>
    /\ sgh = {0}
    /\ pc = "lock"

NextLock ==
    \/ \E state \in AlStates : EnvState(state)
    \/ \E w \in Workers, fn \in LockedFunctions, sid \in SigIds \cup {0} : LockCall(w, fn, sid)
    \/ \E w \in Workers : LockAcquire(w)
    \/ \E w \in Workers : LockStart(w)
    \/ \E w \in Workers : LockContinue(w)
    \/ \E w \in Workers : LockHasState(w)
    \/ \E w \in Workers : LockUpdate(w)
    \/ \E w \in Workers : LockReturn(w)

SpecLock == InitLock /\ [][NextLock]_vars

(* A worker inside a function goes on to its exit and returns, and a       *)
(* worker that waits for a lock that stays free gets it.                    *)
FairLock ==
    \A w \in Workers :
        /\ WF_vars(LockStart(w) \/ LockContinue(w) \/ LockHasState(w) \/ LockUpdate(w))
        /\ WF_vars(LockReturn(w))
        /\ WF_vars(LockAcquire(w))

SpecLockFair == SpecLock /\ FairLock

(* The same calls for a signature with flow-scoped submatches, with and     *)
(* without SIG_FLAG_NOALERT.                                                *)
AlertSigGroups == {{2}, {4}}

InitNoAlert ==
    /\ InitFlow
    /\ \E d \in Dirs : pkt = [NoPacket EXCEPT !.flags = DirFlags(d)]
    /\ txs = <<>>
    /\ sgh \in AlertSigGroups
    /\ pc = "api"

SpecNoAlert == InitNoAlert /\ [][NextApi]_vars

-----------------------------------------------------------------------------
(* The file signature on one transaction in which the parser may open a     *)
(* new file: the calls that re-open a stored record, to the server.         *)

InitFile ==
    /\ InitFlow
    /\ pkt = [NoPacket EXCEPT !.flags = {STREAM_TOSERVER}]
    /\ txs = <<FreshTx>>
    /\ sgh = {1}
    /\ pc = "file"

NextFile ==
    \/ \E d \in Dirs : EnvProgress(1, d)
    \/ EnvNewFile(1, 0)
    \/ ApiStart(1, 0)
    \/ ApiContinue(0)

SpecFile == InitFile /\ [][NextFile]_vars

-----------------------------------------------------------------------------
(* The functions called one by one as in SpecApi, with the pre-check        *)
(* DeStateFlowHasInspectableState among them and the resets at any time.    *)

InitHas ==
    /\ InitFlow
    /\ \E d \in Dirs : pkt = [NoPacket EXCEPT !.flags = DirFlags(d)]
    /\ txs = <<>>
    /\ sgh \in SigGroups
    /\ pc = "has"

(* DeStateFlowHasInspectableState(f, alproto, alversion, flags) with the    *)
(* flow's app-layer version; the call changes nothing in the flow.          *)
ApiHasState(d, eof) ==
    /\ pc = "has"
    /\ LET flags == DirFlags(d) \cup (IF eof THEN {STREAM_EOF} ELSE {})
           r == DeStateFlowHasInspectableState(Cur(<<>>, NoSigMarked, FALSE), alversion, flags)
       IN  hist' = [hist EXCEPT !.call = [NoCall EXCEPT !.op = "has_state", !.flags = flags,
                                                        !.ret = r]]
    /\ UNCHANGED <<det_ctx, alproto, alstate, flow_m, worker, txs, inspect_id, alversion, f_de_state, detect_alversion, sgh, sig_array,
                   alerts, pc, pkt>>

NextHas ==
    \/ EnvNewTx
    \/ \E t \in 1..MaxTxs, d \in Dirs : EnvProgress(t, d)
    \/ \E sid \in SigIds : ApiStart(sid, DirIdx(pkt.flags))
    \/ ApiContinue(DirIdx(pkt.flags))
    \/ ApiUpdate(DirIdx(pkt.flags))
    \/ \E direction \in {{STREAM_TOSERVER}, {STREAM_TOCLIENT},
                         {STREAM_TOSERVER, STREAM_TOCLIENT}} : ApiReset(direction)
    \/ ApiResetTxs
    \/ \E eof \in BOOLEAN : ApiHasState(DirIdx(pkt.flags), eof)

SpecHas == InitHas /\ [][NextHas]_vars

-----------------------------------------------------------------------------
(* The signatures with a file list, on packets of both directions, with     *)
(* new files opened in the transactions and a reset of their detect states. *)

FileSigGroups == {{1}, {3}}

InitReopen ==
    /\ InitFlow
    /\ pkt = NoPacket
    /\ txs = <<FreshTx>>
    /\ sgh \in FileSigGroups
    /\ pc = "reopen"

NextReopen ==
    \/ \E d \in Dirs : EnvProgress(1, d)
    \/ \E d \in Dirs : EnvNewFile(1, d)
    \/ \E sid \in SigIds, d \in Dirs : ApiStart(sid, d)
    \/ \E d \in Dirs : ApiContinue(d)
    \/ \E d \in Dirs : ApiUpdate(d)
    \/ ApiResetTxs

SpecReopen == InitReopen /\ [][NextReopen]_vars

(* Two transactions inspected to the server for a signature with a file     *)
(* engine list, with new files that re-open stored records: the marks a     *)
(* continue call leaves in the signature array.                             *)
InitMark ==
    /\ InitFlow
    /\ pkt = [NoPacket EXCEPT !.flags = {STREAM_TOSERVER}]
    /\ txs = <<FreshTx, FreshTx>>
    /\ sgh \in FileSigGroups
    /\ pc = "mark"

NextMark ==
    \/ \E t \in 1..2 : EnvProgress(t, 0)
    \/ \E t \in 1..2 : EnvNewFile(t, 0)
    \/ \E sid \in SigIds : ApiStart(sid, 0)
    \/ ApiContinue(0)

SpecMark == InitMark /\ [][NextMark]_vars

-----------------------------------------------------------------------------
(* The stores alone: appends with an allocator that may fail, and resets.   *)

InitStore ==
    /\ InitFlow
    /\ pkt = NoPacket
    /\ txs = <<FreshTx>>
    /\ sgh = {0}
    /\ pc = "store"

(* The record the next append to a store of cnt records writes: every      *)
(* place of a store, and every generation of it, gets a record of its own.  *)
NextSid(cnt) == cnt + 1 + hist.resets

NextFlags(cnt) ==
    IF (cnt + hist.resets) % 2 = 0 THEN {DE_STATE_FLAG_HMD_INSPECT}
    ELSE {DE_STATE_FLAG_HMD_INSPECT, DE_STATE_FLAG_FULL_INSPECT}

(* Whether the allocator may be asked, and so may fail, in an append.       *)
ChunkAnswers(dir_state) == IF AsksChunk(dir_state) THEN BOOLEAN ELSE {TRUE}

StoreTxStateAlloc ==
    /\ pc = "store"
    /\ txs[1].de_state = NULL
    /\ f_de_state = NULL
    /\ txs' = [txs EXCEPT ![1].de_state = DetectEngineStateAlloc]
    /\ UNCHANGED <<det_ctx, alproto, alstate, flow_m, worker, inspect_id, alversion, f_de_state, detect_alversion, sgh, sig_array,
                   alerts, pc, pkt, hist>>

StoreFlowStateAlloc ==
    /\ pc = "store"
    /\ f_de_state = NULL
    /\ txs[1].de_state = NULL
    /\ f_de_state' = DetectEngineStateFlowAlloc
    /\ UNCHANGED <<det_ctx, alproto, alstate, flow_m, worker, txs, inspect_id, alversion, detect_alversion, sgh, sig_array,
                   alerts, pc, pkt, hist>>

(* The direction flags the appends are called with: the packet's flags,     *)
(* which name one direction and may hold STREAM_EOF as well.                *)
AppendDirections ==
    {{STREAM_TOSERVER}, {STREAM_TOCLIENT},
     {STREAM_TOSERVER, STREAM_EOF}, {STREAM_TOCLIENT, STREAM_EOF}}

StoreSignatureAppend(direction) ==
    /\ pc = "store"
    /\ hist.n < MaxAppends
    /\ txs[1].de_state # NULL
    /\ LET d == DirIdx(direction)
           dir_state == txs[1].de_state[d]
           rec == [sid |-> NextSid(dir_state.cnt), flags |-> NextFlags(dir_state.cnt)]
       IN  \E ok \in ChunkAnswers(dir_state) :
              LET a == DeStateSignatureAppend(txs[1].de_state, rec.sid, rec.flags,
                                              direction, ok)
              IN  /\ txs' = [txs EXCEPT ![1].de_state = a.state]
                  /\ hist' = [hist EXCEPT
                                 !.n = @ + 1,
                                 !.fault = @ \/ a.fault,
                                 !.call = [NoCall EXCEPT !.op = "append_tx",
                                                         !.flags = direction,
                                                         !.ret = IF ok THEN 1 ELSE 0],
                                 !.appended.tx[d] = IF ok THEN Append(@, rec) ELSE @]
    /\ UNCHANGED <<det_ctx, alproto, alstate, flow_m, worker, inspect_id, alversion, f_de_state, detect_alversion, sgh, sig_array,
                   alerts, pc, pkt>>

StoreFlowRuleAppend(direction) ==
    /\ pc = "store"
    /\ hist.n < MaxAppends
    /\ f_de_state # NULL
    /\ LET d == DirIdx(direction)
           dir_state == f_de_state[d]
           rec == [sid |-> NextSid(dir_state.cnt), flags |-> NextFlags(dir_state.cnt),
                   nm |-> dir_state.cnt % 3]
       IN  \E ok \in ChunkAnswers(dir_state) :
              LET a == DeStateFlowRuleAppend(f_de_state, rec.sid, rec.nm, rec.flags,
                                             direction, ok)
              IN  /\ f_de_state' = a.state
                  /\ hist' = [hist EXCEPT
                                 !.n = @ + 1,
                                 !.fault = @ \/ a.fault,
                                 !.call = [NoCall EXCEPT !.op = "append_flow",
                                                         !.flags = direction,
                                                         !.ret = IF ok THEN 1 ELSE 0],
                                 !.appended.flow[d] = IF ok THEN Append(@, rec) ELSE @]
    /\ UNCHANGED <<det_ctx, alproto, alstate, flow_m, worker, txs, inspect_id, alversion, detect_alversion, sgh, sig_array,
                   alerts, pc, pkt>>

StoreReset(direction) ==
    /\ pc = "store"
    /\ hist.resets < MaxResets
    /\ f_de_state' = DetectEngineStateReset(f_de_state, direction)
    /\ hist' = [hist EXCEPT
                   !.resets = @ + 1,
                   !.call = [NoCall EXCEPT !.op = "reset", !.flags = direction],
                   !.appended.flow = [d \in Dirs |->
                       IF DirFlags(d) \subseteq direction THEN <<>> ELSE @[d]]]
    /\ UNCHANGED <<det_ctx, alproto, alstate, flow_m, worker, txs, inspect_id, alversion, detect_alversion, sgh, sig_array,
                   alerts, pc, pkt>>

StoreResetTxs ==
    /\ pc = "store"
    /\ hist.resets < MaxResets
    /\ txs[1].de_state # NULL
    /\ txs' = DetectEngineStateResetTxs(Cur(<<>>, NoSigMarked, TRUE))
    /\ hist' = [hist EXCEPT !.resets = @ + 1,
                            !.call = [NoCall EXCEPT !.op = "reset_txs"],
                            !.appended.tx = [d \in Dirs |-> <<>>]]
    /\ UNCHANGED <<det_ctx, alproto, alstate, flow_m, worker, inspect_id, alversion, f_de_state, detect_alversion, sgh, sig_array,
                   alerts, pc, pkt>>

NextStore ==
    \/ StoreTxStateAlloc
    \/ StoreFlowStateAlloc
    \/ \E direction \in AppendDirections : StoreSignatureAppend(direction)
    \/ \E direction \in AppendDirections : StoreFlowRuleAppend(direction)
    \/ \E direction \in {{STREAM_TOSERVER}, {STREAM_TOCLIENT},
                         {STREAM_TOSERVER, STREAM_TOCLIENT}} : StoreReset(direction)
    \/ StoreResetTxs

SpecStore == InitStore /\ [][NextStore]_vars

-----------------------------------------------------------------------------
(* The direction states of the flow: those of every transaction's detect    *)
(* state and those of the flow detect state.                                *)
TxDirStates == {txs[t].de_state[d] : <<t, d>> \in {x \in (1..Len(txs)) \X Dirs :
                                                     txs[x[1]].de_state # NULL}}

FlowDirStates == IF f_de_state = NULL THEN {} ELSE {f_de_state[d] : d \in Dirs}

(* The record at place i (0-based) of a direction state.                    *)
RecordAt(dir_state, i) ==
    dir_state.chunks[(i \div DE_STATE_CHUNK_SIZE) + 1][(i % DE_STATE_CHUNK_SIZE) + 1]

(* A direction state holds exactly the records of the sequence appended.    *)
Holds(dir_state, appended) ==
    /\ dir_state.cnt = Len(appended)
    /\ \A i \in 0..(Len(appended) - 1) :
          /\ (i \div DE_STATE_CHUNK_SIZE) + 1 <= Len(dir_state.chunks)
          /\ RecordAt(dir_state, i) = appended[i + 1]
    /\ Iter(dir_state) = appended
    /\ Len(appended) > DE_STATE_CHUNK_SIZE => Len(dir_state.chunks) >= 2

(* C9: after n successful appends to a direction of a detect state (fresh,  *)
(* or since its last reset) cnt is n, the i-th record appended is in chunk  *)
(* i div 15 at slot i mod 15 with the sid and flags it was appended with,   *)
(* the walk from head bounded by cnt yields the records in append order,    *)
(* and there is a second chunk once more than 15 records were appended.     *)
C9_AppendOrder ==
    pc = "store" =>
        /\ txs[1].de_state # NULL =>
              \A d \in Dirs : Holds(txs[1].de_state[d], hist.appended.tx[d])
        /\ f_de_state # NULL =>
              \A d \in Dirs : Holds(f_de_state[d], hist.appended.flow[d])

(* C9 witness: sixteen records were appended to one direction, so the last  *)
(* one sits in the first slot of a second chunk.                            *)
C9_Witness ==
    /\ pc = "store"
    /\ txs[1].de_state # NULL
    /\ Len(hist.appended.tx[0]) = DE_STATE_CHUNK_SIZE + 1
    /\ txs[1].de_state[0].chunks[2][1] = hist.appended.tx[0][DE_STATE_CHUNK_SIZE + 1]

(* A direction state's chunks provide the slots cnt counts.                 *)
WellFormed(dir_state) ==
    /\ Len(dir_state.chunks) * DE_STATE_CHUNK_SIZE >= dir_state.cnt
    /\ dir_state.cnt > 0 => dir_state.chunks # <<>>
    /\ Len(Walk(dir_state, 0)) = dir_state.cnt

(* C10: after any interleaving of appends, failed allocations, reset and    *)
(* reset_txs every direction state has chunks for at least cnt slots, a     *)
(* head whenever cnt > 0, a walk from head bounded by cnt that visits       *)
(* exactly cnt records, and no append followed a null next link.            *)
C10_ChunksCoverCnt ==
    /\ \A dir_state \in TxDirStates \cup FlowDirStates : WellFormed(dir_state)
    /\ ~hist.fault

(* C10 witness: the first chunk is full, the allocator failed when the     *)
(* sixteenth record asked for a second chunk, and the append was dropped.   *)
C10_Witness ==
    /\ pc = "store"
    /\ f_de_state # NULL
    /\ f_de_state[0].cnt = DE_STATE_CHUNK_SIZE
    /\ Len(f_de_state[0].chunks) = 1
    /\ Len(hist.appended.flow[0]) = DE_STATE_CHUNK_SIZE
    /\ hist.n = DE_STATE_CHUNK_SIZE + 1

-----------------------------------------------------------------------------
(* The engines of direction d that signature s has a submatch list for.     *)
Applicable(s, d) ==
    SelectSeq(app_inspection_engine[d], LAMBDA engine : engine.sm_list \in s.sm_lists)

(* The answers of a trace.                                                  *)
Answers(trace) == [i \in DOMAIN trace |-> trace[i][2]]

(* Every applicable engine answered MATCH, and there is one.                *)
FullMatch(trace, s, d) ==
    /\ Len(trace) > 0
    /\ Len(trace) = Len(Applicable(s, d))
    /\ \A i \in DOMAIN trace : trace[i][2] = SIG_MATCH

(* The engine that was asked last could not match.                          *)
CantMatch(trace) ==
    /\ Len(trace) > 0
    /\ trace[Len(trace)][2] \in {SIG_CANT_MATCH, SIG_CANT_MATCH_FILESTORE}

(* The records of signature sid among the first cnt of a transaction's      *)
(* direction state.                                                         *)
CntOf(tx, d) == IF tx.de_state = NULL THEN 0 ELSE tx.de_state[d].cnt

PlacesOf(dir_state, sid) ==
    {i \in 0..(dir_state.cnt - 1) : RecordAt(dir_state, i).sid = sid}

RecordsOf(tx, d, sid) ==
    IF tx.de_state = NULL THEN 0 ELSE Cardinality(PlacesOf(tx.de_state[d], sid))

(* The last call was DeStateDetectStartDetection.                           *)
StartCalled == pc \in Drivers /\ hist.call.op = "start"

(* C5: in a start call whose allocations succeeded, a record of the         *)
(* signature is appended to a visited transaction's detect state in the     *)
(* packet's direction if and only if (every applicable engine matched, at   *)
(* least one, or an engine returned CANT_MATCH or CANT_MATCH_FILESTORE)     *)
(* and (the transaction is not the last or its progress is below the        *)
(* completion status); nothing else is appended.                            *)
C5_PersistDecision ==
    StartCalled =>
        LET s == sig_array_def[hist.call.sid]
            d == DirIdx(hist.call.flags)
        IN  \A i \in DOMAIN hist.call.steps :
               LET step == hist.call.steps[i]
                   tx == txs[step.tx_id + 1]
                   decision == FullMatch(step.trace, s, d) \/ CantMatch(step.trace)
                   kept == step.tx_id + 1 # step.total_txs
                              \/ step.progress < CompletionStatus
               IN  step.ok = <<TRUE, TRUE>> =>
                      IF decision /\ kept
                      THEN /\ CntOf(tx, d) = step.cnt + 1
                           /\ RecordAt(tx.de_state[d], step.cnt).sid = s.num
                      ELSE CntOf(tx, d) = step.cnt

(* C5 witness: a start call went through two transactions; the first was    *)
(* complete but not the last and got a record for a full match, the second  *)
(* was complete and the last and got none for its full match.               *)
C5_Witness ==
    /\ StartCalled
    /\ Len(hist.call.steps) = 2
    /\ LET s == sig_array_def[hist.call.sid]
           d == DirIdx(hist.call.flags)
           first == hist.call.steps[1]
           second == hist.call.steps[2]
       IN  /\ FullMatch(first.trace, s, d) /\ FullMatch(second.trace, s, d)
           /\ first.progress = CompletionStatus /\ second.progress = CompletionStatus
           /\ CntOf(txs[1], d) = 1 /\ CntOf(txs[2], d) = 0

(* A start call on a single transaction in progress, for a signature with   *)
(* two engine lists, to the server: the first engine answered MATCH, the    *)
(* second NO_MATCH.                                                         *)
PartialMatchCalled ==
    /\ StartCalled
    /\ hist.call.flags = {STREAM_TOSERVER}
    /\ Len(Applicable(sig_array_def[hist.call.sid], 0)) = 2
    /\ Len(hist.call.steps) = 1
    /\ hist.call.steps[1].tx_id = 0
    /\ hist.call.steps[1].progress < CompletionStatus
    /\ Answers(hist.call.steps[1].trace) = <<SIG_MATCH, SIG_NO_MATCH>>

(* C6 as stated: a partial match (first engine MATCH, second NO_MATCH) on   *)
(* a single transaction in progress gives no alert and leaves exactly one   *)
(* record of the signature in transaction 0's to-server direction state.    *)
C6_PartialMatchPersistsOne ==
    PartialMatchCalled /\ hist.call.steps[1].cnt = 0 =>
        /\ alerts = <<>>
        /\ RecordsOf(txs[1], 0, hist.call.sid) = 1

(* C6 amended: a partial match (first engine MATCH, second NO_MATCH) on a   *)
(* single transaction in progress gives no alert and appends no record:     *)
(* transaction 0's to-server direction state holds the records it held.     *)
C6_PartialMatchPersistsNone ==
    PartialMatchCalled =>
        /\ alerts = <<>>
        /\ CntOf(txs[1], 0) = hist.call.steps[1].cnt
        /\ hist.call.steps[1].cnt = 0 => RecordsOf(txs[1], 0, hist.call.sid) = 0

(* C6 witness: the partial match happened on a fresh flow.                  *)
C6_Witness ==
    /\ PartialMatchCalled
    /\ hist.n = 1
    /\ txs[1].de_state = NULL
    /\ alerts = <<>>

(* C7: after start calls only, no signature id is in more than one of the   *)
(* first cnt records of a transaction's detect state in a direction.        *)
C7_StartOnlyUnique ==
    (pc = "api" /\ hist.ops \subseteq {"start"}) =>
        \A t \in 1..Len(txs), d \in Dirs, sid \in SigIds : RecordsOf(txs[t], d, sid) <= 1

(* A visit of the last continue call to a flow record whose walk it         *)
(* resumed.                                                                 *)
ResumedWalks ==
    IF pc \in {"api", "file"} /\ hist.call.op = "continue"
    THEN {hist.call.visited[i] : i \in {j \in DOMAIN hist.call.visited :
                                          /\ hist.call.visited[j].kind = "flow"
                                          /\ hist.call.visited[j].ran}}
    ELSE {}

(* C3: continue alerts for a flow-scoped record only if every submatch      *)
(* from the stored cursor to the end of the list returned 1; a record       *)
(* whose resumed walk met a submatch that returned 2 gives no alert.        *)
C3_FlowRuleResume ==
    \A v \in ResumedWalks :
        /\ v.alert => /\ v.trace # <<>>
                      /\ \A i \in DOMAIN v.trace : v.trace[i] = 1
        /\ (\E i \in DOMAIN v.trace : v.trace[i] = 2) => ~v.alert

(* The alerts of the last call that name a transaction.                     *)
TxAlerts ==
    IF pc \in {"api", "file"} /\ hist.call.op \in {"start", "continue"}
    THEN {alerts[i] : i \in {j \in DOMAIN alerts : PACKET_ALERT_FLAG_TX \in alerts[j].flags}}
    ELSE {}

(* C2: a call alerts for signature s with transaction t only if every       *)
(* engine that s has a submatch list for has returned MATCH on t, and       *)
(* MATCH is the latest answer each of them gave on t.                       *)
C2_TxAlertsSound ==
    \A a \in TxAlerts :
        LET engines == Applicable(sig_array_def[a.sid], DirIdx(hist.call.flags))
        IN  \A i \in DOMAIN engines :
               <<a.sid, a.tx_id, engines[i].inspect_flags>> \in hist.last_match

(* C1: in the per-packet sequence, where no new file is opened, a           *)
(* signature alerts at most once for a transaction, the packets of each     *)
(* direction taken apart.                                                   *)
C1_AlertOncePerTx ==
    pc \in {"idle", "continue", "start", "update"} =>
        \A k \in hist.twice : k[2] = -1

(* C8: in the per-packet sequence no signature id is in more than one of    *)
(* the first cnt flow-scoped records of a direction, whether or not the     *)
(* flow holds transactional records as well.                                *)
C8_FlowRecordsUnique ==
    pc \in {"idle", "continue", "start", "update"} =>
        \A dir_state \in FlowDirStates, sid \in SigIds :
            Cardinality(PlacesOf(dir_state, sid)) <= 1

(* The answers of a set agree: no callback is on record with two answers    *)
(* to one question.                                                         *)
Functional(answers) ==
    \A a, b \in answers :
        (a[1] = b[1] /\ a[2] = b[2] /\ a[3] = b[3] /\ a[4] = b[4]) => a[5] = b[5]

(* What is known of the callbacks' answers on the whole input: the answers  *)
(* of the second packet, and those of the first that more input cannot      *)
(* change.                                                                  *)
Known == hist.whole \cup {a \in hist.prefix : a[6]}

(* The flow before any detection ran on it, holding the whole input.        *)
Undetected ==
    [txs |-> [t \in DOMAIN txs |-> [txs[t] EXCEPT !.de_state = NULL]],
     inspect_id |-> [d \in Dirs |-> 0], f_de_state |-> NULL,
     detect_alversion |-> [d \in Dirs |-> 0], alerts |-> <<>>, sgh |-> sgh,
     sig_array |-> NoSigMarked, last_match |-> {}, fault |-> FALSE, oom |-> FALSE,
     alstate |-> alstate, det_ctx |-> det_ctx]

(* Two packets of one direction went through the per-packet sequence, with  *)
(* input parsed before each; the first ran the start driver, the second     *)
(* ran it unless the signature was marked or the flow had no new state.     *)
(* The whole input leaves every transaction complete in that direction.     *)
SplitDone(sid) ==
    /\ pc = "idle" /\ pkt.n = 2 /\ alversion = 2
    /\ sgh = {sid}
    /\ \A t \in DOMAIN txs : txs[t].progress[DirIdx(pkt.flags)] = CompletionStatus
    /\ hist.prefix # {}
    /\ \A a \in hist.prefix \cup hist.whole : a[1] = DirIdx(pkt.flags)
    /\ \/ pkt.next_sig > sid
       \/ sig_array[sid] = DE_STATE_MATCH_NO_NEW_STATE
       \/ pkt.has_state = 2

(* C4: the start driver on a prefix of the input and then the per-packet    *)
(* sequence on the rest alert for the same signature and transactions as    *)
(* one run of the start driver on the whole input, the callbacks' answers   *)
(* being a function of the input seen so far (stated for the inputs that   *)
(* end with every transaction complete).                                    *)
C4_Resumable ==
    \A sid \in SigIds :
        (SplitDone(sid) /\ Functional(Known)) =>
            LET d == DirIdx(pkt.flags)
            IN  \A run \in DeStateDetectStartDetection(Undetected, sig_array_def[sid],
                                                       DirFlags(d), alversion) :
                    Functional(Known \cup StartAnswers(run, sid, d)) =>
                        AlertKeys(run.alerts, d) = hist.alerted

-----------------------------------------------------------------------------
(* What a direction of a detect state stores: cnt and the chunk list (head, *)
(* tail, the next links and the records).                                   *)
Stored(state, d) ==
    IF state = NULL THEN [cnt |-> 0, chunks |-> <<>>]
    ELSE [cnt |-> state[d].cnt, chunks |-> state[d].chunks]

AllocOk == <<TRUE, TRUE>>

(* The step is a call of DeStateDetectStartDetection in which the allocator *)
(* returned NULL.                                                           *)
StartFailedAlloc == hist'.call.op = "start" /\ hist'.fails > hist.fails

(* C11: when the allocation of the detect state or of a chunk fails in a    *)
(* start call, the append is dropped: cnt, the chunk list and the records   *)
(* of that direction are as before the call, the call returns 0 or 1 as     *)
(* ever, and its alerts and return value are those of the call with the     *)
(* same callback answers in which every allocation succeeds.                *)
C11_AllocFailureDropsAppend ==
    [][StartFailedAlloc =>
          LET call == hist'.call
              d == DirIdx(call.flags)
              failed == {i \in DOMAIN call.steps : call.steps[i].ok # AllocOk}
          IN  /\ \A i \in failed :
                    Stored(txs'[call.steps[i].tx_id + 1].de_state, d)
                        = Stored(txs[call.steps[i].tx_id + 1].de_state, d)
              /\ failed = {} => Stored(f_de_state', d) = Stored(f_de_state, d)
              /\ call.ret \in {0, 1}
              /\ \E run \in DeStateDetectStartDetection(Cur(<<>>, NoSigMarked, FALSE),
                                 sig_array_def[call.sid], call.flags, alversion) :
                    /\ Len(run.steps) = Len(call.steps)
                    /\ \A i \in DOMAIN call.steps : run.steps[i].trace = call.steps[i].trace
                    /\ run.walk = call.walk
                    /\ run.alerts = alerts'
                    /\ run.alert_cnt = call.ret]_vars

(* C11 witness: a start call matched fully on a transaction in progress,    *)
(* alerted, got the detect state but no chunk, and left the state empty.    *)
C11_Witness ==
    /\ StartCalled
    /\ hist.fails = 1
    /\ hist.call.ret = 1
    /\ alerts # <<>>
    /\ \E i \in DOMAIN hist.call.steps :
          LET step == hist.call.steps[i]
              tx == txs[step.tx_id + 1]
          IN  /\ step.ok = <<TRUE, FALSE>>
              /\ step.progress < CompletionStatus
              /\ FullMatch(step.trace, sig_array_def[hist.call.sid], DirIdx(hist.call.flags))
              /\ tx.de_state # NULL
              /\ Stored(tx.de_state, DirIdx(hist.call.flags)) = [cnt |-> 0, chunks |-> <<>>]

-----------------------------------------------------------------------------
(* The place (0-based) of the slot <<chunk, slot>> in a direction state.    *)
PlaceOf(pos) == (pos[1] - 1) * DE_STATE_CHUNK_SIZE + (pos[2] - 1)

(* The step is a call of DetectEngineStateResetTxs.                         *)
ResetTxsStep == hist'.call.op = "reset_txs" /\ hist'.resets > hist.resets

(* The step is a call of DeStateDetectContinueDetection.                    *)
ContinueStep == hist'.call.op = "continue" /\ hist'.n > hist.n

(* C12: DetectEngineStateResetTxs leaves every transaction from the lower   *)
(* of the two inspect ids up to the transaction count that has a detect     *)
(* state with cnt = 0, filestore_cnt = 0 and no flags in both directions,   *)
(* and no later continue call visits a record stored before the reset.      *)
C12_ResetTxsClears ==
    [][/\ ResetTxsStep =>
             \A t \in 1..Len(txs') :
                 (t - 1 >= MinId(inspect_id[0], inspect_id[1]) /\ txs'[t].de_state # NULL) =>
                     \A d \in Dirs :
                         /\ txs'[t].de_state[d].cnt = 0
                         /\ txs'[t].de_state[d].filestore_cnt = 0
                         /\ txs'[t].de_state[d].flags = {}
       /\ ContinueStep =>
             \A i \in DOMAIN hist'.call.visited :
                 LET v == hist'.call.visited[i]
                 IN  v.kind = "tx" =>
                        <<v.tx_id, DirIdx(hist'.call.flags), PlaceOf(v.pos)>> \notin hist.stale
      ]_vars

(* C12 witness: the inspect ids of the two directions differ, a transaction *)
(* at or above the id of a direction held a record there, the reset emptied *)
(* that direction state, and a continue call of that direction came by it.  *)
C12_Witness ==
    /\ pc = "reopen"
    /\ hist.call.op = "continue"
    /\ hist.resets = 1
    /\ inspect_id[0] # inspect_id[1]
    /\ \E x \in hist.stale :
          /\ x[2] = DirIdx(hist.call.flags)
          /\ x[1] >= inspect_id[x[2]]
          /\ txs[x[1] + 1].de_state[x[2]].cnt = 0
          /\ Len(txs[x[1] + 1].de_state[x[2]].chunks) > 0

-----------------------------------------------------------------------------
(* The step is a call of DetectEngineStateReset.                            *)
ResetStep == hist'.call.op = "reset" /\ hist'.resets > hist.resets

(* Direction index d is named in the mask.                                  *)
Named(d, mask) ==
    \/ d = 0 /\ STREAM_TOSERVER \in mask
    \/ d = 1 /\ STREAM_TOCLIENT \in mask

(* C13: DetectEngineStateReset(state, mask) sets cnt to 0 and clears the    *)
(* flags of exactly the directions the mask names (to-server: index 0,      *)
(* to-client: index 1); the other direction's cnt, flags and records, the   *)
(* chunk lists and detect_alversion of both directions and the              *)
(* transactions are as before; on a NULL state nothing changes.             *)
C13_ResetByMask ==
    [][ResetStep =>
          LET mask == hist'.call.flags
          IN  /\ detect_alversion' = detect_alversion
              /\ txs' = txs
              /\ IF f_de_state = NULL THEN f_de_state' = NULL
                 ELSE /\ f_de_state' # NULL
                      /\ \A d \in Dirs :
                            /\ f_de_state'[d].chunks = f_de_state[d].chunks
                            /\ IF Named(d, mask)
                               THEN f_de_state'[d].cnt = 0 /\ f_de_state'[d].flags = {}
                               ELSE f_de_state'[d] = f_de_state[d]
      ]_vars

(* C13 witness: both directions held records, the reset named the server    *)
(* direction only: its cnt is 0 with the chunk kept, the client direction   *)
(* holds what it held.                                                      *)
C13_Witness ==
    /\ pc = "store"
    /\ hist.call.op = "reset"
    /\ hist.call.flags = {STREAM_TOSERVER}
    /\ f_de_state # NULL
    /\ f_de_state[0].cnt = 0 /\ Len(f_de_state[0].chunks) = 1
    /\ f_de_state[0].chunks[1][1].sid # 0
    /\ f_de_state[1].cnt = 2
    /\ Iter(f_de_state[1]) = hist.appended.flow[1]

-----------------------------------------------------------------------------
(* The file bits of direction d: of an item, and of a direction state.      *)
FileInspect(d) == IF d = 0 THEN DE_STATE_FLAG_FILE_TS_INSPECT ELSE DE_STATE_FLAG_FILE_TC_INSPECT

FileNew(d) == IF d = 0 THEN FLAG_FILE_TS_NEW ELSE FLAG_FILE_TC_NEW

(* The records of the transactions: <<transaction, direction, place>>.      *)
TxRecords(tx_list) ==
    UNION {{<<x[1], x[2], i>> : i \in 0..(tx_list[x[1]].de_state[x[2]].cnt - 1)}
              : x \in {y \in (1..Len(tx_list)) \X Dirs : tx_list[y[1]].de_state # NULL}}

FlagsAt(tx_list, r) == RecordAt(tx_list[r[1]].de_state[r[2]], r[3]).flags

(* The new-file re-open of a call in direction d applies to record r: the   *)
(* record is of direction d, its direction state announces a new file of    *)
(* direction d and the record holds the file bit of direction d.            *)
ReopenApplies(tx_list, r, d) ==
    /\ r[2] = d
    /\ FileNew(d) \in tx_list[r[1]].de_state[d].flags
    /\ FileInspect(d) \in FlagsAt(tx_list, r)

(* C14: a transactional record that holds FULL_INSPECT holds it after a     *)
(* continue call of direction d, unless the record's direction state has    *)
(* the new-file flag of d raised and the record holds the file bit of d; a  *)
(* record that holds the file bit of the other direction only keeps it.     *)
C14_FullInspectPersists ==
    [][ContinueStep =>
          \A r \in TxRecords(txs) :
              (/\ DE_STATE_FLAG_FULL_INSPECT \in FlagsAt(txs, r)
               /\ ~ReopenApplies(txs, r, DirIdx(hist'.call.flags)))
                  => DE_STATE_FLAG_FULL_INSPECT \in FlagsAt(txs', r)
      ]_vars

(* C14 witness: a continue call to the client, with a new file announced    *)
(* to the client, re-opened a record that held FILE_TC_INSPECT and asked    *)
(* its engine again, while the to-server record of the transaction, which   *)
(* holds FILE_TS_INSPECT, still holds FULL_INSPECT.                         *)
C14_Witness ==
    /\ pc = "reopen"
    /\ hist.call.op = "continue"
    /\ hist.call.flags = {STREAM_TOCLIENT}
    /\ txs[1].de_state # NULL
    /\ FLAG_FILE_TC_NEW \in txs[1].de_state[1].flags
    /\ \E i \in DOMAIN hist.call.visited :
          /\ hist.call.visited[i].ran
          /\ {DE_STATE_FLAG_FULL_INSPECT, DE_STATE_FLAG_FILE_TC_INSPECT}
                 \subseteq hist.call.visited[i].before
    /\ txs[1].de_state[0].cnt = 1
    /\ {DE_STATE_FLAG_FULL_INSPECT, DE_STATE_FLAG_FILE_TS_INSPECT}
           \subseteq RecordAt(txs[1].de_state[0], 0).flags
    /\ DE_STATE_FLAG_FILE_TC_INSPECT \notin RecordAt(txs[1].de_state[0], 0).flags

-----------------------------------------------------------------------------
(* The visits a continue call paid to record r, a place of direction d.     *)
VisitsOf(call, r) ==
    {call.visited[i] : i \in {j \in DOMAIN call.visited :
        /\ call.visited[j].kind = "tx"
        /\ call.visited[j].tx_id = r[1] - 1
        /\ PlaceOf(call.visited[j].pos) = r[3]}}

(* The engine of the file bit of direction d was asked in the visit, which  *)
(* it is only for an item that does not hold the bit.                       *)
FileEngineAsked(v, d) == v.ran /\ \E j \in DOMAIN v.trace : v.trace[j][1] = FileInspect(d)

(* C15: a step that finds CANT_MATCH set on a transactional record leaves   *)
(* it set, unless the step is a continue call of direction d that finds     *)
(* the new-file flag of d raised and the file bit of d on the record and    *)
(* clears that bit with it, so that the file engine is asked again; a reset *)
(* of the transaction states ends the record.                               *)
C15_CantMatchSticky ==
    [][\A r \in TxRecords(txs) \cap TxRecords(txs') :
          (/\ DE_STATE_FLAG_SIG_CANT_MATCH \in FlagsAt(txs, r)
           /\ DE_STATE_FLAG_SIG_CANT_MATCH \notin FlagsAt(txs', r))
              => /\ ContinueStep
                 /\ ReopenApplies(txs, r, DirIdx(hist'.call.flags))
                 /\ \A v \in VisitsOf(hist'.call, r) :
                        FileEngineAsked(v, DirIdx(hist'.call.flags))
                 /\ VisitsOf(hist'.call, r) # {}
      ]_vars

(* C15 witness: a record that held CANT_MATCH and the file bit, and not     *)
(* FULL_INSPECT, was visited with a new file announced; the file engine     *)
(* was asked again and the record no longer holds CANT_MATCH.               *)
C15_Witness ==
    /\ pc = "reopen"
    /\ hist.call.op = "continue"
    /\ \E i \in DOMAIN hist.call.visited :
          LET v == hist.call.visited[i]
              d == DirIdx(hist.call.flags)
          IN  /\ v.kind = "tx"
              /\ {DE_STATE_FLAG_SIG_CANT_MATCH, FileInspect(d)} \subseteq v.before
              /\ DE_STATE_FLAG_FULL_INSPECT \notin v.before
              /\ FileEngineAsked(v, d)
              /\ DE_STATE_FLAG_SIG_CANT_MATCH
                     \notin RecordAt(txs[v.tx_id + 1].de_state[d], PlaceOf(v.pos)).flags

-----------------------------------------------------------------------------
(* The alerts in al for signature sid on transaction tx_id.                 *)
AlertsFor(al, sid, tx_id) ==
    {i \in DOMAIN al : /\ al[i].sid = sid
                       /\ al[i].tx_id = tx_id
                       /\ PACKET_ALERT_FLAG_TX \in al[i].flags}

(* C16: for a transactional record that holds FULL_INSPECT and to which no  *)
(* new-file re-open applies, a continue call asks no engine on that record  *)
(* and appends no alert for the record's signature on its transaction.      *)
C16_FullInspectSilent ==
    [][ContinueStep =>
          \A r \in TxRecords(txs) :
              (/\ r[2] = DirIdx(hist'.call.flags)
               /\ DE_STATE_FLAG_FULL_INSPECT \in FlagsAt(txs, r)
               /\ ~ReopenApplies(txs, r, r[2]))
                  => /\ \A v \in VisitsOf(hist'.call, r) : ~v.ran /\ ~v.alert
                     /\ AlertsFor(alerts', RecordAt(txs[r[1]].de_state[r[2]], r[3]).sid,
                                  r[1] - 1) = {}
      ]_vars

(* The record-level half of the statement above: the visit of such a record *)
(* asks no engine and raises no alert.                                      *)
FullInspectRecordSilent ==
    [][ContinueStep =>
          \A r \in TxRecords(txs) :
              (/\ r[2] = DirIdx(hist'.call.flags)
               /\ DE_STATE_FLAG_FULL_INSPECT \in FlagsAt(txs, r)
               /\ ~ReopenApplies(txs, r, r[2]))
                  => \A v \in VisitsOf(hist'.call, r) : ~v.ran /\ ~v.alert
      ]_vars

-----------------------------------------------------------------------------
(* The flags of a has_state call in direction d, with or without STREAM_EOF. *)
HasFlags(d, eof) == DirFlags(d) \cup (IF eof THEN {STREAM_EOF} ELSE {})

(* What DeStateFlowHasInspectableState answers in the current state.        *)
HasStateAnswer(d, eof) ==
    DeStateFlowHasInspectableState(Cur(<<>>, NoSigMarked, FALSE), alversion, HasFlags(d, eof))

(* Direction d has a stored record: in the flow state, or in the state of a *)
(* transaction at or above the inspect id of d.                             *)
RecordsStored(d) ==
    \/ f_de_state # NULL /\ f_de_state[d].cnt > 0
    \/ \E t \in 1..Len(txs) :
          /\ t - 1 >= inspect_id[d]
          /\ txs[t].de_state # NULL
          /\ txs[t].de_state[d].cnt > 0

(* C17: DeStateFlowHasInspectableState answers non-zero for direction d     *)
(* only if the flow state has a record in d or a transaction at or above    *)
(* the inspect id has a state with cnt > 0 in d; otherwise it answers 0.    *)
C17_NonZeroOnlyWithRecords ==
    \A d \in Dirs, eof \in BOOLEAN :
        HasStateAnswer(d, eof) # 0 => RecordsStored(d)

-----------------------------------------------------------------------------
(* For a direction whose version was stored (the parser's version is above  *)
(* 0 at every store), DeStateFlowHasInspectableState answers 2 exactly when *)
(* no record was appended in the direction after the last store of its      *)
(* version.                                                                 *)
C18_TwoIffNothingAppended ==
    \A d \in Dirs, eof \in BOOLEAN :
        detect_alversion[d] > 0 => (HasStateAnswer(d, eof) = 2 <=> ~hist.pending[d])

(* C18: DeStateFlowHasInspectableState answers 2 for direction d exactly    *)
(* when STREAM_EOF is not passed, the flow has a detect state and the       *)
(* version of d was stored after the parser last moved the app-layer        *)
(* version.                                                                 *)
C18_TwoIffVersionCurrent ==
    \A d \in Dirs, eof \in BOOLEAN :
        HasStateAnswer(d, eof) = 2 <=> (~eof /\ f_de_state # NULL /\ hist.written[d])

(* A has_state call answered 2 for a direction whose version was stored by  *)
(* a call that appended, and the other direction, never stored, answers     *)
(* less.                                                                    *)
C18_Witness ==
    /\ hist.call.op = "has_state"
    /\ hist.call.ret = 2
    /\ LET d == DirIdx(hist.call.flags)
       IN  /\ hist.written[d] /\ ~hist.written[1 - d]
           /\ RecordsStored(d)
           /\ HasStateAnswer(d, FALSE) = 2
           /\ HasStateAnswer(1 - d, FALSE) < 2

-----------------------------------------------------------------------------
(* C19: with STREAM_EOF DeStateFlowHasInspectableState never answers 2: it  *)
(* answers 1 if records are stored and 0 otherwise, also when the stored    *)
(* version equals the version passed; without STREAM_EOF it answers 2       *)
(* exactly when the flow detect state exists and the stored version of the  *)
(* direction equals the version passed.                                     *)
C19_EofNeverTwo ==
    \A d \in Dirs :
        /\ HasStateAnswer(d, TRUE) = IF RecordsStored(d) THEN 1 ELSE 0
        /\ HasStateAnswer(d, FALSE) = 2
              <=> (f_de_state # NULL /\ detect_alversion[d] = alversion)

(* A has_state call with STREAM_EOF answered 1 in a state in which the      *)
(* version is unchanged and the call without STREAM_EOF answers 2.          *)
C19_Witness ==
    /\ hist.call.op = "has_state"
    /\ STREAM_EOF \in hist.call.flags
    /\ hist.call.ret = 1
    /\ LET d == DirIdx(hist.call.flags)
       IN  /\ f_de_state # NULL
           /\ detect_alversion[d] = alversion
           /\ HasStateAnswer(d, TRUE) = 1
           /\ HasStateAnswer(d, FALSE) = 2

-----------------------------------------------------------------------------
(* C20: in every transaction's detect state and every direction,            *)
(* filestore_cnt is at most the number of filestore-candidate signatures of *)
(* the signature group, also when one start call visits several             *)
(* transactions and when start runs again for the same signature.           *)
C20_FilestoreCntBounded ==
    \A t \in 1..Len(txs) : \A d \in Dirs :
        txs[t].de_state # NULL =>
            txs[t].de_state[d].filestore_cnt <= SghFilestoreCnt(sgh)

-----------------------------------------------------------------------------
(* The file engine answered CANT_MATCH_FILESTORE for signature sid on       *)
(* transaction tx_id in direction d, in some packet of the flow.            *)
Declined(sid, tx_id, d) ==
    \E a \in hist.prefix \cup hist.whole :
        /\ a[1] = d /\ a[2] = sid /\ a[3] = tx_id
        /\ a[5] = SIG_CANT_MATCH_FILESTORE

(* C21: with a filestore-candidate signature in the group, a transaction's  *)
(* direction state has FILE_STORE_DISABLED only after every                 *)
(* filestore-candidate signature answered CANT_MATCH_FILESTORE on that      *)
(* transaction in that direction; answers on other transactions do not      *)
(* count.                                                                   *)
C21_DisabledOnlyAfterAllDeclined ==
    SghFilestoreCnt(sgh) >= 1 =>
        \A t \in 1..Len(txs) : \A d \in Dirs :
            (/\ txs[t].de_state # NULL
             /\ FLAG_FILE_STORE_DISABLED \in txs[t].de_state[d].flags)
                => \A s \in sgh : sig_array_def[s].filestore => Declined(s, t - 1, d)

-----------------------------------------------------------------------------
(* The step is a call of DeStateDetectStartDetection.                       *)
StartStep == hist'.call.op = "start" /\ hist'.n > hist.n

(* The engines reached a decision on the transaction: every applicable      *)
(* engine matched, or the last one asked could not match.                   *)
Decided(trace, s, d) == FullMatch(trace, s, d) \/ CantMatch(trace)

(* The transactions for which a call issued                                 *)
(* FileDisableStoringForTransaction.                                        *)
DisabledBy(call) == {call.disabled[i] : i \in DOMAIN call.disabled}

(* C22: when a start call reaches a decision for the signature on a         *)
(* transaction and the filestore_cnt of the transaction's detect state,     *)
(* with the call's count added, equals the group's filestore-candidate      *)
(* count, the call disables file storing for the transaction and direction  *)
(* and FILE_STORE_DISABLED is set, whether or not a record was stored.      *)
C22_DisabledAtCount ==
    [][StartStep =>
          LET call == hist'.call
              s == sig_array_def[call.sid]
              d == DirIdx(call.flags)
          IN  \A i \in DOMAIN call.steps :
                  LET step == call.steps[i]
                      after == txs'[step.tx_id + 1].de_state
                  IN  (/\ Decided(step.trace, s, d)
                       /\ after # NULL
                       /\ after[d].filestore_cnt = SghFilestoreCnt(sgh))
                          => /\ FLAG_FILE_STORE_DISABLED \in after[d].flags
                             /\ step.tx_id \in DisabledBy(call)
      ]_vars

(* C22 witness: the sole filestore-candidate signature declined on a        *)
(* transaction that is the last and complete: no record was stored, the     *)
(* count is 1 and file storing was disabled by the call.                    *)
C22_Witness ==
    /\ pc = "api"
    /\ hist.call.op = "start"
    /\ sgh = {1}
    /\ Len(txs) = 1
    /\ Len(hist.call.steps) = 1
    /\ LET d == DirIdx(hist.call.flags)
           step == hist.call.steps[1]
       IN  /\ step.progress = CompletionStatus
           /\ step.trace[Len(step.trace)][2] = SIG_CANT_MATCH_FILESTORE
           /\ txs[1].de_state # NULL
           /\ txs[1].de_state[d].cnt = 0
           /\ txs[1].de_state[d].filestore_cnt = 1
           /\ FLAG_FILE_STORE_DISABLED \in txs[1].de_state[d].flags
           /\ DisabledBy(hist.call) = {0}

-----------------------------------------------------------------------------
(* C23: FileDisableStoringForTransaction is called at most once per         *)
(* transaction and direction: once FILE_STORE_DISABLED is set on a          *)
(* transaction's direction state, no later call of the drivers calls it     *)
(* for that transaction and direction.                                      *)
C23_DisabledOnce == hist.again = {}

-----------------------------------------------------------------------------
(* The flow-scoped submatches of s all answered 1 in the walk.              *)
WalkFull(walk, s) ==
    /\ s.amatch > 0
    /\ Len(walk) = s.amatch
    /\ \A i \in DOMAIN walk : walk[i] = 1

(* The transactions of the call on which every applicable engine matched.   *)
FullMatches(call) ==
    {i \in DOMAIN call.steps :
        FullMatch(call.steps[i].trace, sig_array_def[call.sid], DirIdx(call.flags))}

-----------------------------------------------------------------------------
(* The transactional records a continue call inspected, in the order of     *)
(* inspection.                                                              *)
TxVisits(call) == SelectSeq(call.visited, LAMBDA v : v.kind = "tx")

(* C27: a continue call goes through the transactions in ascending tx id    *)
(* from the inspect id, and inspects no stored record of a transaction      *)
(* that comes after a transaction in progress, whether or not the           *)
(* transaction in progress has a detect state.                              *)
C27_HaltsAtInProgress ==
    [][ContinueStep =>
          LET call == hist'.call
              d == DirIdx(call.flags)
              seen == TxVisits(call)
          IN  /\ \A i \in DOMAIN seen :
                    /\ seen[i].tx_id >= inspect_id[d]
                    /\ \A j \in DOMAIN seen : i < j => seen[i].tx_id <= seen[j].tx_id
              /\ \A i \in DOMAIN seen :
                    \A t \in 1..Len(txs) :
                        (t - 1 >= inspect_id[d] /\ t - 1 < seen[i].tx_id)
                            => txs[t].progress[d] >= CompletionStatus
      ]_vars

(* C28: a continue call passes each of the cnt flow-scoped records of its   *)
(* direction to DoInspectFlowRule exactly once and in append order, however *)
(* many transactional records the same call inspected before.               *)
FlowVisits(call) == SelectSeq(call.visited, LAMBDA v : v.kind = "flow")

C28_FlowRecordsEachOnce ==
    [][(ContinueStep /\ f_de_state # NULL) =>
          LET d == DirIdx(hist'.call.flags)
              seen == FlowVisits(hist'.call)
          IN  [i \in DOMAIN seen |-> seen[i].pos] = Walk(f_de_state[d], 0)
      ]_vars

(* C29: a continue call of direction d that visits a transactional record   *)
(* holding FULL_INSPECT and the file bit of d, while the record's direction *)
(* state announces a new file of d, asks the file engine for the record     *)
(* again in that call, or leaves the record without FULL_INSPECT, without   *)
(* CANT_MATCH and without the file bit, so that a later call asks it; the   *)
(* record may hold CANT_MATCH as well.                                      *)
C29_NewFileReruns ==
    [][ContinueStep =>
          LET d == DirIdx(hist'.call.flags)
          IN  \A r \in TxRecords(txs) :
                  \A v \in VisitsOf(hist'.call, r) :
                      (/\ ReopenApplies(txs, r, d)
                       /\ {DE_STATE_FLAG_FULL_INSPECT, FileInspect(d)} \subseteq v.before)
                          => \/ FileEngineAsked(v, d)
                             \/ FlagsAt(txs', r) \cap {DE_STATE_FLAG_FULL_INSPECT,
                                                      DE_STATE_FLAG_SIG_CANT_MATCH,
                                                      FileInspect(d)} = {}
      ]_vars

-----------------------------------------------------------------------------
(* The flow-scoped records of direction d, in append order.                 *)
FlowRecords(state, d) == IF state = NULL THEN <<>> ELSE Iter(state[d])

(* The submatch at which a walk over the flow-scoped submatches stopped:    *)
(* 0 (NULL) when it went through the whole list.                            *)
StopOf(walk, s) == IF WalkFull(walk, s) THEN 0 ELSE Len(walk)

(* The start call appended one flow-scoped record of its signature, with    *)
(* the cursor where the walk stopped, and wrote the version.                *)
FlowRecordStored(call) ==
    LET d == DirIdx(call.flags)
        after == FlowRecords(f_de_state', d)
    IN  /\ Len(after) = Len(FlowRecords(f_de_state, d)) + 1
        /\ SubSeq(after, 1, Len(after) - 1) = FlowRecords(f_de_state, d)
        /\ after[Len(after)].sid = call.sid
        /\ after[Len(after)].nm = StopOf(call.walk, sig_array_def[call.sid])
        /\ detect_alversion'[d] = alversion
        /\ detect_alversion'[1 - d] = detect_alversion[1 - d]

-----------------------------------------------------------------------------
(* C25: a start or continue call that finds the app-layer state invalid     *)
(* (NULL, or an HTTP state without its connection) on a protocol with       *)
(* transactions returns 0 and leaves the flow as it found it: no alert is   *)
(* appended, no record is appended or changed on a transaction or on the    *)
(* flow, no signature is marked NO_NEW_STATE and detect_alversion is not    *)
(* written; no engine and no flow-scoped submatch is asked and no stored    *)
(* record is visited.                                                       *)
C25_InvalidStateTouchesNothing ==
    [][((StartStep \/ ContinueStep) /\ SupportsTxs /\ ~StateIsValid(alproto, alstate)) =>
          /\ hist'.call.ret = 0
          /\ alerts' = <<>>
          /\ txs' = txs
          /\ f_de_state' = f_de_state
          /\ sig_array' = NoSigMarked
          /\ detect_alversion' = detect_alversion
          /\ hist'.call.steps = <<>>
          /\ hist'.call.walk = <<>>
          /\ hist'.call.visited = <<>>
      ]_vars

(* C25 witness: a continue call found the app-layer state invalid on a flow *)
(* that holds a record on its transaction and a flow-scoped record with     *)
(* submatches left to ask, stored by an earlier start call; it visited      *)
(* neither.                                                                 *)
C25_Witness ==
    /\ pc = "invalid"
    /\ hist.call.op = "continue"
    /\ ~hist.call.valid
    /\ ~StateIsValid(alproto, alstate)
    /\ hist.call.visited = <<>>
    /\ "start" \in hist.ops
    /\ txs[1].de_state # NULL /\ txs[1].de_state[0].cnt = 1
    /\ f_de_state # NULL /\ f_de_state[0].cnt = 1
    /\ RecordAt(f_de_state[0], 0).nm > 0
    /\ detect_alversion[0] < alversion

-----------------------------------------------------------------------------
(* A worker is inside the body of a function, between FLOWLOCK_WRLOCK and   *)
(* its return.                                                              *)
Inside(w) == worker[w].at \in {"body", "exit"}

(* C24: with several workers calling start, continue, has_state and         *)
(* update on one flow, a worker inside a function holds the flow's lock, so *)
(* that at most one is inside at a time; a worker that returned does not    *)
(* hold the lock, whichever exit it took; and a worker waiting at           *)
(* FLOWLOCK_WRLOCK gets inside.                                             *)
C24_FlowLockHeld ==
    /\ [](\A w \in Workers : Inside(w) => flow_m = w)
    /\ [](\A w \in Workers : worker[w].at \in {"idle", "wrlock"} => flow_m # w)
    /\ \A w \in Workers : (worker[w].at = "wrlock") ~> Inside(w)

(* C24 witness: worker 1 is inside the continue driver with an invalid      *)
(* app-layer state, about to leave by the early return, after a start call  *)
(* stored a record; worker 2 waits at FLOWLOCK_WRLOCK.                      *)
C24_Witness ==
    /\ pc = "lock"
    /\ worker[1].at = "exit" /\ worker[1].fn = "continue" /\ worker[1].exit = "return"
    /\ flow_m = 1
    /\ worker[2].at = "wrlock"
    /\ txs[1].de_state # NULL /\ txs[1].de_state[0].cnt = 1

-----------------------------------------------------------------------------
(* The answers of a walk over the flow-scoped submatches: i is in the       *)
(* sequence walk when the i-th submatch asked answered walk[i].             *)
WalkHas(walk, answer) == \E i \in DOMAIN walk : walk[i] = answer

(* The alerts of the flow-scoped part of a call among the alerts al.        *)
FlowAlerts(al) ==
    {i \in DOMAIN al : al[i].flags = {PACKET_ALERT_FLAG_STATE_MATCH}}

(* C31: in a start call whose allocations succeed, for a signature with     *)
(* flow-scoped submatches, the outcome of the walk is that of the           *)
(* submatches' answers alone: the walk stops at the first answer 0 or 2,    *)
(* an alert without transaction is appended exactly when every submatch     *)
(* answered 1, the record stored holds CANT_MATCH exactly when a submatch   *)
(* answered 2, and a walk that stopped on 0 is stored without FULL_INSPECT, *)
(* whatever the engines answered on the transactions of the call.           *)
C31_WalkOutcomeFromSubmatches ==
    [][(/\ StartStep
        /\ sig_array_def[hist'.call.sid].amatch > 0
        /\ hist'.fails = hist.fails) =>
          LET call == hist'.call
              s == sig_array_def[call.sid]
              d == DirIdx(call.flags)
              after == FlowRecords(f_de_state', d)
              rec == after[Len(after)]
              walk == call.walk
          IN  /\ \A i \in DOMAIN walk : i < Len(walk) => walk[i] = 1
              /\ ~s.noalert => (FlowAlerts(alerts') # {} <=> WalkFull(walk, s))
              /\ DE_STATE_FLAG_SIG_CANT_MATCH \in rec.flags <=> WalkHas(walk, 2)
              /\ (walk # <<>> /\ walk[Len(walk)] = 0)
                     => DE_STATE_FLAG_FULL_INSPECT \notin rec.flags
      ]_vars

-----------------------------------------------------------------------------
(* A start call that takes the DCERPC matches: a signature with DCE         *)
(* submatches on DCERPC, SMB or SMB2, a protocol without transactions.      *)
DceStartStep ==
    /\ StartStep
    /\ ~SupportsTxs
    /\ alproto \in DceProtos
    /\ sig_array_def[hist'.call.sid].dmatch

(* The state has a DCERPC part to hand to the payload inspector.            *)
DcePresent ==
    /\ alstate # ALSTATE_NULL
    /\ alproto \in {ALPROTO_SMB, ALPROTO_SMB2} => alstate # ALSTATE_NO_DCERPC

(* C32: the DCERPC matches of a start call ask the DCE payload inspector at *)
(* most once, and exactly when the state is not NULL and, for SMB and SMB2,  *)
(* has a DCERPC part; the call appends an alert of the packet (STATE_MATCH, *)
(* tx id 0) for them exactly when the inspector answered 1; and a call for  *)
(* a signature without flow-scoped submatches leaves the flow detect state, *)
(* every transaction and both detect_alversion values as they were.         *)
C32_DceBranchStoresNothing ==
    [][DceStartStep =>
          LET call == hist'.call
              s == sig_array_def[call.sid]
              dce_alerts == IF call.dce = <<1>> THEN 1 ELSE 0
              flow_alerts == IF alstate # ALSTATE_NULL /\ WalkFull(call.walk, s)
                             THEN 1 ELSE 0
          IN  /\ Len(call.dce) <= 1
              /\ call.dce # <<>> <=> DcePresent
              /\ Len(alerts') = dce_alerts + flow_alerts
              /\ \A i \in DOMAIN alerts' :
                     alerts'[i] = [sid |-> s.num, tx_id |-> 0,
                                   flags |-> {PACKET_ALERT_FLAG_STATE_MATCH}]
              /\ call.ret = (IF dce_alerts + flow_alerts > 0 THEN 1 ELSE 0)
              /\ (s.amatch = 0 \/ alstate = ALSTATE_NULL) =>
                     /\ f_de_state' = f_de_state
                     /\ txs' = txs
                     /\ detect_alversion' = detect_alversion
      ]_vars

(* A start call on SMB for the signature with DCE submatches only alerted   *)
(* on the inspector's answer 1 while the flow held records of another       *)
(* signature.                                                               *)
C32_Witness ==
    /\ hist.call.op = "start"
    /\ hist.call.sid = 5
    /\ hist.call.dce = <<1>>
    /\ alproto = ALPROTO_SMB
    /\ Len(alerts) = 1
    /\ f_de_state # NULL

-----------------------------------------------------------------------------
(* The alert at place i of al is one of a transaction.                      *)
IsTxAlert(al, i) == PACKET_ALERT_FLAG_TX \in al[i].flags

-----------------------------------------------------------------------------
(* The visits of a continue call at which the record inspector gave -1.     *)
FailedVisits(call) == {i \in DOMAIN call.visited : call.visited[i].r < 0}

(* C34: when a record inspector gives -1 in a continue call, the call       *)
(* inspects no record after that one, leaves both detect_alversion values   *)
(* as they were, goes out through the end label, where the flow is          *)
(* unlocked, and leaves the thread context with tx_id and tx_id_set 0.      *)
C34_FailureAbortsCall ==
    [][(ContinueStep /\ FailedVisits(hist'.call) # {}) =>
          LET call == hist'.call
          IN  /\ FailedVisits(call) = {Len(call.visited)}
              /\ detect_alversion' = detect_alversion
              /\ call.exit = "end"
              /\ FlowUnlocks("continue", call.exit)
              /\ flow_m' = 0
              /\ det_ctx'.tx_id = 0
              /\ det_ctx'.tx_id_set = 0
      ]_vars

(* A continue call failed on the first of two stored flow records, with a   *)
(* version to store.                                                        *)
C34_Witness ==
    /\ hist.call.op = "continue"
    /\ FailedVisits(hist.call) = {1}
    /\ Len(FlowRecords(f_de_state, DirIdx(hist.call.flags))) = 2
    /\ detect_alversion[DirIdx(hist.call.flags)] # alversion

-----------------------------------------------------------------------------
(* The visits of a continue call to records of transactions.                *)
TxVisitsOf(call) == {i \in DOMAIN call.visited : call.visited[i].kind = "tx"}

(* C35: in a continue call, the inspector of a transaction's record that    *)
(* stays fully inspected or unable to match writes NO_NEW_STATE for the     *)
(* signature exactly when the transaction is the last one, or is in         *)
(* progress, or the next transaction has progress 0; the inspector of a     *)
(* record whose engines it runs writes it exactly when the transaction is   *)
(* the last one; and a signature is marked after the call exactly when an   *)
(* inspector wrote its mark.                                                *)
C35_ContinueMarks ==
    [][ContinueStep =>
          LET call == hist'.call
              d == DirIdx(call.flags)
          IN  /\ \A i \in TxVisitsOf(call) :
                     LET v == call.visited[i]
                         last == v.tx_id + 1 = Len(txs)
                         inprogress == txs[v.tx_id + 1].progress[d] < CompletionStatus
                         next_idle == /\ v.tx_id + 2 <= Len(txs)
                                      /\ txs[v.tx_id + 2].progress[d] = 0
                     IN  IF v.ran THEN v.mark <=> last
                         ELSE v.mark <=> (last \/ inprogress \/ next_idle)
              /\ \A sid \in SigIds :
                     sig_array'[sid] = DE_STATE_MATCH_NO_NEW_STATE
                        <=> \E i \in DOMAIN call.visited :
                               call.visited[i].sid = sid /\ call.visited[i].mark
      ]_vars

(* A continue call ran the engines on a re-opened record of the first of    *)
(* two transactions and left the signature unmarked on it, and left it      *)
(* unmarked on a record that stayed terminal as well.                       *)
C35_Witness ==
    /\ hist.call.op = "continue"
    /\ \E i \in TxVisitsOf(hist.call) :
          /\ hist.call.visited[i].ran
          /\ hist.call.visited[i].tx_id = 0
          /\ ~hist.call.visited[i].mark
    /\ Len(txs) = 2

(* A continue call left a terminal record of a transaction unmarked: the    *)
(* transaction is complete and not the last, and the next one has begun.    *)
C35_WitnessTerminal ==
    /\ hist.call.op = "continue"
    /\ \E i \in TxVisitsOf(hist.call) :
          /\ ~hist.call.visited[i].ran
          /\ ~hist.call.visited[i].mark

-----------------------------------------------------------------------------
(* The file flag of an item that a new file of direction d re-opens, and    *)
(* the flag of the direction state that announces the new file.             *)
FileInspectFlag(d) ==
    IF d = 0 THEN DE_STATE_FLAG_FILE_TS_INSPECT ELSE DE_STATE_FLAG_FILE_TC_INSPECT

NewFileFlag(d) == IF d = 0 THEN FLAG_FILE_TS_NEW ELSE FLAG_FILE_TC_NEW

(* C36: every record a start call appends to a transaction's detect state   *)
(* holds FULL_INSPECT when it is stored, and a continue call runs the       *)
(* engines on a transaction's record only if the record is re-opened in the *)
(* call - it held FULL_INSPECT and a file flag and the direction state      *)
(* announced a new file - or was re-opened by an earlier continue call.     *)
C36_StartStoresFullInspect ==
    [][/\ StartStep =>
             \A r \in TxRecords(txs') \ TxRecords(txs) :
                 DE_STATE_FLAG_FULL_INSPECT \in FlagsAt(txs', r)
       /\ ContinueStep =>
             LET call == hist'.call
                 d == DirIdx(call.flags)
             IN  \A i \in TxVisitsOf(call) :
                    LET v == call.visited[i]
                        place == <<v.tx_id + 1, d,
                                   (v.pos[1] - 1) * DE_STATE_CHUNK_SIZE + v.pos[2] - 1>>
                    IN  v.ran =>
                           IF DE_STATE_FLAG_FULL_INSPECT \in v.before
                           THEN /\ FileInspectFlag(d) \in v.before
                                /\ NewFileFlag(d) \in txs[v.tx_id + 1].de_state[d].flags
                           ELSE place \in hist.reopened
      ]_vars

(* A start call has stored a record, and a continue call later ran the      *)
(* engines on a record that an earlier continue call had re-opened.         *)
C36_Witness ==
    /\ hist.call.op = "continue"
    /\ \E i \in TxVisitsOf(hist.call) :
          /\ hist.call.visited[i].ran
          /\ DE_STATE_FLAG_FULL_INSPECT \notin hist.call.visited[i].before
    /\ "start" \in hist.ops

-----------------------------------------------------------------------------
(* What a detect state of a transaction or of the flow counts, per          *)
(* direction: the records, the filestore answers, FILE_STORE_DISABLED.      *)
Accounting(state, has_files) ==
    IF state = NULL THEN NULL
    ELSE [d \in Dirs |->
            [cnt |-> state[d].cnt,
             filestore_cnt |-> IF has_files THEN state[d].filestore_cnt ELSE 0,
             disabled |-> FLAG_FILE_STORE_DISABLED \in state[d].flags]]

(* C37: a continue call appends no record and leaves the file-store         *)
(* accounting alone: every transaction's detect state and the flow's have,  *)
(* in both directions, the cnt, the filestore_cnt and the                   *)
(* FILE_STORE_DISABLED flag they had before, whatever the engines answer,   *)
(* and no detect state is allocated.                                        *)
C37_ContinueAppendsNothing ==
    [][ContinueStep =>
          /\ Len(txs') = Len(txs)
          /\ \A t \in 1..Len(txs) :
                 Accounting(txs'[t].de_state, TRUE) = Accounting(txs[t].de_state, TRUE)
          /\ Accounting(f_de_state', FALSE) = Accounting(f_de_state, FALSE)
      ]_vars

(* A continue call in which the file engine answered CANT_MATCH_FILESTORE   *)
(* on a re-opened record of a filestore signature.                          *)
C37_Witness ==
    /\ hist.call.op = "continue"
    /\ \E i \in TxVisitsOf(hist.call) :
          /\ hist.call.visited[i].ran
          /\ \E k \in DOMAIN hist.call.visited[i].trace :
                 hist.call.visited[i].trace[k][2] = SIG_CANT_MATCH_FILESTORE

-----------------------------------------------------------------------------
(* The visits of a continue call whose record alerted.                      *)
AlertingVisits(call) == {i \in DOMAIN call.visited : call.visited[i].alert}

(* C38: a start or continue call entered with tx_id, tx_id_set and          *)
(* flow_locked 0 in the thread context returns, through whichever exit,     *)
(* with the three 0; flow_locked is 1 in the post match of each alerting    *)
(* record of a continue call, and a start call runs no post match.          *)
C38_ThreadContextCleared ==
    [][((StartStep \/ ContinueStep) /\ det_ctx = NoTx) =>
          LET call == hist'.call
          IN  /\ det_ctx'.tx_id = 0
              /\ det_ctx'.tx_id_set = 0
              /\ det_ctx'.flow_locked = 0
              /\ \A i \in DOMAIN call.post : call.post[i].flow_locked = 1
              /\ Len(call.post) = Cardinality(AlertingVisits(call))
              /\ call.op = "start" => call.post = <<>>
      ]_vars

(* After a start call, a continue call ran the post match of one alerting   *)
(* record and returned with the thread context cleared.                     *)
C38_Witness ==
    /\ hist.call.op = "continue"
    /\ Len(hist.call.post) = 1
    /\ det_ctx = NoTx
    /\ "start" \in hist.ops

-----------------------------------------------------------------------------
(* The step is a call of DeStateSignatureAppend or DeStateFlowRuleAppend.   *)
AppendStep == hist'.call.op \in {"append_tx", "append_flow"} /\ hist'.n > hist.n

(* The slots <<chunk, slot>> of the chunks of a direction state.            *)
Slots(dir_state) ==
    {<<c, k>> : c \in 1..Len(dir_state.chunks), k \in 1..DE_STATE_CHUNK_SIZE}

(* What an append to direction i made of the state before: the other        *)
(* direction is the same; direction i has, after a stored record, one more  *)
(* record behind the same records, one slot written and the slots it had    *)
(* before as they were but for that one, with the flags (and the filestore  *)
(* count) it had; after a dropped one, it is the same.                      *)
AppendedTo(before, after, i, stored, has_files) ==
    /\ after[1 - i] = before[1 - i]
    /\ IF stored
       THEN /\ after[i].cnt = before[i].cnt + 1
            /\ SubSeq(Iter(after[i]), 1, before[i].cnt) = Iter(before[i])
            /\ after[i].flags = before[i].flags
            /\ has_files => after[i].filestore_cnt = before[i].filestore_cnt
            /\ Cardinality({x \in Slots(before[i]) :
                                after[i].chunks[x[1]][x[2]] # before[i].chunks[x[1]][x[2]]})
                   <= 1
            /\ Len(after[i].chunks) \in {Len(before[i].chunks), Len(before[i].chunks) + 1}
       ELSE after[i] = before[i]

(* C39: an append takes direction index 0 when the direction flags hold     *)
(* STREAM_TOSERVER and 1 when they do not, and changes the state of that    *)
(* direction alone: cnt goes up by one and one slot is written, the         *)
(* records stored before are the same, and the other direction keeps its    *)
(* cnt, flags and records.                                                  *)
C39_AppendOneDirection ==
    [][AppendStep =>
          LET call == hist'.call
              i == IF STREAM_TOSERVER \in call.flags THEN 0 ELSE 1
          IN  IF call.op = "append_tx"
              THEN /\ AppendedTo(txs[1].de_state, txs'[1].de_state, i, call.ret = 1, TRUE)
                   /\ f_de_state' = f_de_state
              ELSE /\ AppendedTo(f_de_state, f_de_state', i, call.ret = 1, FALSE)
                   /\ txs' = txs
      ]_vars

(* An append with STREAM_TOCLIENT and STREAM_EOF stored a record in         *)
(* direction 1 while direction 0 held a full chunk of records.              *)
C39_Witness ==
    /\ hist.call.op = "append_tx"
    /\ hist.call.flags = {STREAM_TOCLIENT, STREAM_EOF}
    /\ hist.call.ret = 1
    /\ txs[1].de_state # NULL
    /\ txs[1].de_state[1].cnt = 1
    /\ txs[1].de_state[0].cnt = DE_STATE_CHUNK_SIZE

-----------------------------------------------------------------------------
(* The visits of a continue call to flow-scoped records.                    *)
FlowVisitsOf(call) == {i \in DOMAIN call.visited : call.visited[i].kind = "flow"}

(* C40: the cursor nm of a flow-scoped record moves forward only.  A        *)
(* continue call that resumes the walk at nm leaves the cursor at the       *)
(* submatch that answered 0, which is nm or comes after it, or at NULL      *)
(* when no submatch answered 0; and for a record whose cursor is NULL or    *)
(* that holds FULL_INSPECT or SIG_CANT_MATCH a continue call asks no        *)
(* submatch and leaves cursor and flags as they are.                        *)
C40_CursorMovesForward ==
    [][ContinueStep =>
          LET call == hist'.call
              d == DirIdx(call.flags)
          IN  \A i \in FlowVisitsOf(call) :
                 LET v == call.visited[i]
                     rec == f_de_state'[d].chunks[v.pos[1]][v.pos[2]]
                     terminal ==
                         \/ v.nm = 0
                         \/ v.before \cap {DE_STATE_FLAG_FULL_INSPECT,
                                           DE_STATE_FLAG_SIG_CANT_MATCH} # {}
                     stopped == v.trace # <<>> /\ v.trace[Len(v.trace)] = 0
                 IN  /\ terminal => /\ v.trace = <<>>
                                     /\ rec.nm = v.nm
                                     /\ rec.flags = v.before
                     /\ rec.nm # 0 => rec.nm >= v.nm
                     /\ (~terminal /\ v.trace # <<>>) =>
                            rec.nm = IF stopped THEN v.nm + Len(v.trace) - 1 ELSE 0
                     /\ \A k \in DOMAIN v.trace : k < Len(v.trace) => v.trace[k] # 0
      ]_vars

(* A continue call resumed a walk at the first submatch, which answered 1,  *)
(* and left the cursor at the second, which answered 0.                     *)
C40_Witness ==
    /\ hist.call.op = "continue"
    /\ \E i \in FlowVisitsOf(hist.call) :
          LET v == hist.call.visited[i]
          IN  /\ v.nm = 1
              /\ v.trace = <<1, 0>>
              /\ f_de_state[DirIdx(hist.call.flags)].chunks[v.pos[1]][v.pos[2]].nm = 2

====
